---- MODULE Spec2Model ----
(***************************************************************************)
(* Character state machine of path-to-power: targeting (gridlock),         *)
(* inventory and equipment, combat damage and stat updates, movement and   *)
(* its cooldown, the command router with its parameter validation and      *)
(* target lookup, and the sessions that keep the live character registry.  *)
(* Also: firing a ranged weapon, kill and its rewards, saving and          *)
(* shutdown, the dispatch of client messages, and the per-cell player      *)
(* lists the map component keeps in redis.                                 *)
(*                                                                         *)
(* JavaScript runs every handler to completion; a promise callback         *)
(* (.then/.catch) is never run by the call that attaches it but is put on  *)
(* the promise library's job queue and run later, in FIFO order.  The      *)
(* variable queue is that job queue: an operation's action is its          *)
(* synchronous part, and each deferred continuation is an action of its    *)
(* own that runs when it is at the head of the queue.                      *)
(* A redis command awaiting its reply is such a job too: the replies of    *)
(* one connection arrive in the order the commands were sent.              *)
(***************************************************************************)
EXTENDS Integers, Sequences, FiniteSets, TLC

\* ---------------------------------------------------------------- bounds
NumChars == 3
\* pending promise continuations
MaxQueue == 2
\* item objects alive at once
MaxItems == 3
\* cooldown objects in one character's list
MaxCooldowns == 2
\* Game.config.game.playerCooldowns.move, in ticks
MoveTicks == 1
\* largest amount argument of giveItem / dropItem
MaxAmount == 2
\* the map is GridSize x GridSize cells
GridSize == 2
\* stats are kept at or below this value by the guards of the update actions
MaxStat == 3
\* stats.inventorySize of the characters of the model
InvSize == 2
\* the durability of a piece of armor is kept at or below this value
MaxDurability == 5
\* the quantity of a stack is kept at or below this value
MaxStack == 2

Chars == 1..NumChars
\* connections, character objects created and timeouts set
NumSockets == 2
MaxLogins == 2
MaxTimers == 2
Sockets == 1..NumSockets
\* the users who connect
Accounts == {1, 2}
\* the characters that issue overlapping calls, and those that move, flee
\* and die, in the model
Aimers == {1, 2}
Movers == {1}
ItemIds == 1..MaxItems
\* the JavaScript null of Character.target
NoChar == 0
\* no item object (undefined / null)
NoItem == 0
\* a coordinate that was never assigned (undefined) and one computed from it (NaN)
Undefined == -1000
NaN == -2000
Infinity == -3000

VARIABLES
    user_id,     \* user_id[c]    : Character.user_id
    target,      \* target[c]     : Character.target (NoChar = null)
    targetedBy,  \* targetedBy[c] : Character.targetedBy, an array of characters
    stats,       \* stats[c]      : Character.stats
    inventory,   \* inventory[c]  : Character.inventory, an array of item objects
    item,        \* item[i]       : the fields of item object i
    location,    \* location[c]   : Character.location
    hidden,      \* hidden[c]     : Character.hidden
    cooldowns,   \* cooldowns[c]  : Character.cooldowns
    queue,       \* pending promise continuations, FIFO
    ret,         \* the most recent call and what it returned / resolved with
    commands,    \* CommandManager.commands : key -> command object
    sinceMove,   \* sinceMove[c] : ticks since move last changed c's location,
                 \*                counted up to MoveTicks
    characters,  \* CharacterManager.characters, the live registry, as managed
                 \* by manage / remove: an array of character objects
    managing,    \* the character objects a call of manage has yet to add
    sockets,     \* sockets[s]   : socket.user of connection s (0 = none)
    timers,      \* SocketManager.timers : user id -> timeout handle (0 = none)
    timeouts,    \* the timeouts set and neither fired nor cleared
    redis        \* the redis store of the map component: position_<user> and
                 \* grid_<map>_<x>_<y>

vars == <<user_id, target, targetedBy, stats, inventory, item, location, hidden,
          cooldowns, queue, ret, commands, sinceMove,
          characters, managing, sockets, timers, timeouts, redis>>

targetVars == <<target, targetedBy>>
itemVars == <<inventory, item>>
placeVars == <<location, hidden, cooldowns>>
sessionVars == <<characters, managing, sockets, timers, timeouts>>

\* ------------------------------------------------------------- helpers
\* Array.prototype.findIndex with the predicate obj.user_id === uid; 0 = not found (-1 in JS)
FindIndexByUser(list, uid) ==
    IF \E i \in 1..Len(list) : user_id[list[i]] = uid
    THEN CHOOSE i \in 1..Len(list) :
            /\ user_id[list[i]] = uid
            /\ \A j \in 1..(i - 1) : user_id[list[j]] # uid
    ELSE 0

\* Array.prototype.splice(i, 1)
RemoveAt(list, i) == SubSeq(list, 1, i - 1) \o SubSeq(list, i + 1, Len(list))

Range(list) == {list[i] : i \in 1..Len(list)}

\* Character.gridLock applied to a targetedBy array
gridLock(list, character) ==
    IF FindIndexByUser(list, user_id[character]) = 0
    THEN Append(list, character)
    ELSE list

\* existingCharacter.targetedBy.forEach((user) => character.gridLock(user))
RECURSIVE gridLockAll(_, _)
gridLockAll(list, users) ==
    IF users = <<>> THEN list
    ELSE gridLockAll(gridLock(list, Head(users)), Tail(users))

\* gridRelease that leaves the array as it is
gridReleaseKeeps(list, uid) == list

\* Character.gridRelease applied to a targetedBy array
gridRelease(list, uid) ==
    LET playerIndex == FindIndexByUser(list, uid)
    IN  IF playerIndex = 0 THEN list ELSE RemoveAt(list, playerIndex)

\* The executor of Character.releaseTarget (it runs synchronously inside the
\* call): the pair of target / targetedBy maps afterwards.
releaseTarget(tg, tb, c) ==
    [target     |-> [tg EXCEPT ![c] = NoChar],
     targetedBy |-> IF tg[c] # NoChar
                    THEN [tb EXCEPT ![tg[c]] = gridRelease(@, user_id[c])]
                    ELSE tb]

\* no location captured
NoLoc == [map |-> "", x |-> 0, y |-> 0]

\* A pending continuation: kind, owning character, two captured references
\* (characters, item objects or coordinates), a captured string, and how many
\* more turns of the job queue pass before it runs (a .catch attached behind a
\* .then is reached one turn after the .then is skipped).
Job(k, c, a, b, s, hops) ==
    [k |-> k, self |-> c, a |-> a, b |-> b, s |-> s, hops |-> hops,
     loc |-> NoLoc, dir |-> 0, cd |-> 0, stale |-> FALSE]

\* A pending continuation of a move or a flee: the captured newLocation, the
\* moveAction (grid, direction) and the cooldown object (its id; 0 = none)
MoveJob(k, c, loc, grid, direction, cd, hops) ==
    [k |-> k, self |-> c, a |-> 0, b |-> 0, s |-> grid, hops |-> hops,
     loc |-> loc, dir |-> direction, cd |-> cd, stale |-> FALSE]

\* the most recent call: the method, the character, the argument and the
\* result where a property below reads them (0 otherwise)
Ret(op, c, arg, res) == [op |-> op, self |-> c, arg |-> arg, res |-> res]
NoRet == Ret("none", NoChar, 0, 0)

\* this.commands = {} : no key registered
NoCommands == << >>

\* ------------------------------------------------------------ item catalog
\* Item templates as the character code reads them: item.name, item.subtype,
\* item.stats.equipable / stackable / damage_reduction / durability.
TemplateIds == {"vest", "coat", "ammo", "gun", "junk"}

Template(id) ==
    CASE id = "vest" -> [name |-> <<"V", "e">>, subtype |-> "body", equipable |-> TRUE,
                         stackable |-> FALSE, damage_reduction |-> 10, durability |-> 5]
      [] id = "coat" -> [name |-> <<"c">>, subtype |-> "body", equipable |-> TRUE,
                         stackable |-> FALSE, damage_reduction |-> 2, durability |-> 3]
      [] id = "ammo" -> [name |-> <<"a">>, subtype |-> "ammo", equipable |-> TRUE,
                         stackable |-> TRUE, damage_reduction |-> 0, durability |-> 1]
      [] id = "gun"  -> [name |-> <<"g">>, subtype |-> "ranged", equipable |-> TRUE,
                         stackable |-> FALSE, damage_reduction |-> 0, durability |-> 1]
      [] OTHER       -> [name |-> <<"j">>, subtype |-> "trash", equipable |-> FALSE,
                         stackable |-> FALSE, damage_reduction |-> 0, durability |-> 1]

\* an item object; "" stands for a field that is null or was never set
ItemRec(id, durability) ==
    [id |-> id, durability |-> durability, equipped_slot |-> "", slot |-> ""]

\* a heap cell holding no object
FreeRec == ItemRec("", 0)

\* String.prototype.toLowerCase on a name, letter by letter
LowerChar(ch) == CASE ch = "V" -> "v" [] ch = "A" -> "a" [] ch = "C" -> "c" [] OTHER -> ch
toLowerCase(name) == [i \in 1..Len(name) |-> LowerChar(name[i])]

\* haystack.indexOf(needle) === 0
StartsWith(haystack, needle) ==
    /\ Len(needle) <= Len(haystack)
    /\ SubSeq(haystack, 1, Len(needle)) = needle

\* the item objects some inventory or pending continuation still refers to
Referenced(inv, q) ==
    UNION {Range(inv[c]) : c \in Chars}
        \cup {q[i].a : i \in 1..Len(q)} \cup {q[i].b : i \in 1..Len(q)}

\* the cell a new item object occupies (NoItem when the model's heap is full)
NewItemId(inv, heap, q) ==
    LET live == Referenced(inv, q)
        free == {i \in ItemIds : heap[i].id = "" /\ i \notin live}
    IN  IF free = {} THEN NoItem ELSE CHOOSE i \in free : \A j \in free : i <= j

\* heap cells of objects nothing refers to any more are cleared
Collect(inv, heap, q) ==
    LET live == Referenced(inv, q)
    IN  [i \in ItemIds |-> IF i \in live THEN heap[i] ELSE FreeRec]

\* ItemManager.add(id, {durability}): a new item object of a template
itemManagerAdd(heap, i, id, durability) ==
    [heap EXCEPT ![i] = ItemRec(id, durability)]

\* ItemManager.remove(character, item): takes the item object out of the
\* character's inventory; an argument that is no item object matches nothing
itemManagerRemove(inv, i) ==
    IF i \in Range(inv)
    THEN LET k == CHOOSE k \in 1..Len(inv) : inv[k] = i IN RemoveAt(inv, k)
    ELSE inv

\* --------------------------------------------------------------- equipment
\* Character.getEquippedSync(slot): the first inventory item in the slot
getEquippedSync(inv, heap, slot) ==
    IF \E k \in 1..Len(inv) : heap[inv[k]].equipped_slot = slot
    THEN inv[CHOOSE k \in 1..Len(inv) :
                /\ heap[inv[k]].equipped_slot = slot
                /\ \A j \in 1..(k - 1) : heap[inv[j]].equipped_slot # slot]
    ELSE NoItem

\* the switch of Character.equip: item subtype -> slot ("" = not equipable there)
SlotOfSubtype(subtype) ==
    CASE subtype = "ranged" -> "ranged"
      [] subtype = "melee"  -> "melee"
      [] subtype = "body"   -> "armor"
      [] subtype = "ammo"   -> "ammo"
      [] OTHER              -> ""

\* Character.unEquip, synchronous part, as a job-queue transformer: the slot's
\* occupant is looked up now, the un-equipping is deferred.  (When nothing is
\* equipped the promise rejects into an empty .catch, which changes nothing.)
unEquipQueue(q, inv, heap, c, slot) ==
    IF slot = "" THEN q
    ELSE LET found == getEquippedSync(inv, heap, slot)
         IN  IF found = NoItem THEN q
             ELSE Append(q, Job("unEquip", c, found, NoItem, slot, 1))

\* Character.equip(inventoryIndex), synchronous part (index counted from 1)
Equip(c, idx) ==
    /\ Len(queue) < MaxQueue
    /\ LET i == IF idx \in 1..Len(inventory[c]) THEN inventory[c][idx] ELSE NoItem
           slot == IF i = NoItem THEN "" ELSE SlotOfSubtype(Template(item[i].id).subtype)
       IN  IF i = NoItem \/ ~Template(item[i].id).equipable \/ slot = ""
           THEN /\ queue' = queue
                /\ ret' = Ret("equip", c, 0, "false")
           ELSE LET equippedItem == getEquippedSync(inventory[c], item, slot)
                IN  /\ queue' = Append(queue,
                            IF equippedItem # NoItem
                            THEN Job("equipThen", c, i, equippedItem, slot, 1)
                            ELSE Job("equipCatch", c, i, NoItem, slot, 2))
                    /\ ret' = Ret("equip", c, 0, "undefined")
    /\ UNCHANGED <<sessionVars, redis, user_id, commands, sinceMove, targetVars, stats, itemVars, placeVars>>

\* Character.equip, the .then callback: the occupant found at call time is
\* un-equipped, the item equipped
EquipThen ==
    /\ queue # <<>>
    /\ Head(queue).k = "equipThen"
    /\ Head(queue).hops = 1
    /\ LET j == Head(queue)
       IN  item' = Collect(inventory,
                           [item EXCEPT ![j.b].equipped_slot = "", ![j.a].equipped_slot = j.s],
                           Tail(queue))
    /\ queue' = Tail(queue)
    /\ UNCHANGED <<sessionVars, redis, user_id, commands, sinceMove, targetVars, stats, inventory, placeVars, ret>>

\* Character.equip, the .catch callback: nothing was equipped at call time
EquipCatch ==
    /\ queue # <<>>
    /\ Head(queue).k = "equipCatch"
    /\ Head(queue).hops = 1
    /\ item' = Collect(inventory,
                       [item EXCEPT ![Head(queue).a].equipped_slot = Head(queue).s],
                       Tail(queue))
    /\ queue' = Tail(queue)
    /\ UNCHANGED <<sessionVars, redis, user_id, commands, sinceMove, targetVars, stats, inventory, placeVars, ret>>

\* Character.unEquip(slot), synchronous part
UnEquip(c, slot) ==
    /\ Len(queue) < MaxQueue
    /\ queue' = unEquipQueue(queue, inventory[c], item, c, slot)
    /\ ret' = Ret("unEquip", c, 0, IF slot = "" THEN "false" ELSE "undefined")
    /\ UNCHANGED <<sessionVars, redis, user_id, commands, sinceMove, targetVars, stats, itemVars, placeVars>>

\* Character.unEquip, the .then callback
UnEquipThen ==
    /\ queue # <<>>
    /\ Head(queue).k = "unEquip"
    /\ Head(queue).hops = 1
    /\ item' = Collect(inventory,
                       [item EXCEPT ![Head(queue).a].equipped_slot = ""],
                       Tail(queue))
    /\ queue' = Tail(queue)
    /\ UNCHANGED <<sessionVars, redis, user_id, commands, sinceMove, targetVars, stats, inventory, placeVars, ret>>

\* a rejection travelling through a .then with no rejection handler reaches
\* the .catch behind it one turn of the job queue later
Pass ==
    /\ queue # <<>>
    /\ Head(queue).hops > 1
    /\ queue' = Append(Tail(queue), [Head(queue) EXCEPT !.hops = @ - 1])
    /\ UNCHANGED <<sessionVars, redis, user_id, commands, sinceMove, targetVars, stats, itemVars, placeVars, ret>>

\* ------------------------------------------------------------ ranged fire
\* A pending continuation of fireRangedWeapon: the captured item object and
\* the character's ignoreQuantity flag as the continuation will read it
FireJob(k, c, a, ignoreQuantity, hops) ==
    [k |-> k, self |-> c, a |-> a, b |-> NoItem, s |-> "", hops |-> hops,
     loc |-> NoLoc, dir |-> 0, cd |-> 0, stale |-> FALSE,
     ignoreQuantity |-> ignoreQuantity]

\* the outcome of the promise of fireRangedWeapon: the ammunition object the
\* call consumed from (NoItem = none) and its durability before
FireRet(c, res, ammo, before) ==
    [op |-> "fireRangedWeapon", self |-> c, arg |-> 0, res |-> res,
     ammo |-> ammo, before |-> before]

\* hasAmmo that takes any equipped ammunition for usable
hasAmmoAnyDurability(inv, heap) == getEquippedSync(inv, heap, "ammo") # NoItem

\* Character.hasAmmo
hasAmmo(inv, heap) ==
    LET equippedAmmo == getEquippedSync(inv, heap, "ammo")
    IN  IF equippedAmmo = NoItem THEN FALSE
        ELSE IF heap[equippedAmmo].durability <= 0 THEN FALSE
        ELSE TRUE

\* Item.removeDurability(amount): the durability left
removeDurability(heap, i, amount) == heap[i].durability - amount

\* Character.fireRangedWeapon, synchronous part: getWeaponDamage('ranged')
\* looks the weapon up at once; with none its rejection passes the .then of
\* getWeaponDamage, its .catch, the .then of fireRangedWeapon and reaches the
\* last .catch
FireRangedWeapon(c, ignoreQuantity) ==
    /\ Len(queue) < MaxQueue
    /\ LET equippedItem == getEquippedSync(inventory[c], item, "ranged")
       IN  queue' = Append(queue,
                IF equippedItem = NoItem
                THEN FireJob("fireCatch", c, NoItem, ignoreQuantity, 4)
                ELSE FireJob("getWeaponDamage", c, equippedItem, ignoreQuantity, 1))
    /\ ret' = FireRet(c, "pending", NoItem, 0)
    /\ UNCHANGED <<sessionVars, redis, user_id, commands, sinceMove, targetVars, stats, itemVars, placeVars>>

\* getWeaponDamage, the callback of getEquipped: getAmmoDamage resolves at
\* once without usable ammunition and one callback later with it; its own
\* callback resolves the damage
GetWeaponDamageThen ==
    /\ queue # <<>>
    /\ Head(queue).k = "getWeaponDamage"
    /\ Head(queue).hops = 1
    /\ LET j == Head(queue)
       IN  queue' = Append(Tail(queue),
                FireJob("fireThen", j.self, NoItem, j.ignoreQuantity,
                        IF hasAmmo(inventory[j.self], item) THEN 3 ELSE 2))
    /\ UNCHANGED <<sessionVars, redis, user_id, commands, sinceMove, targetVars, stats, itemVars, placeVars, ret>>

\* fireRangedWeapon, the callback of getWeaponDamage
FireThen ==
    /\ queue # <<>>
    /\ Head(queue).k = "fireThen"
    /\ Head(queue).hops = 1
    /\ LET j == Head(queue)
           ammo == getEquippedSync(inventory[j.self], item, "ammo")
       IN  IF ~hasAmmo(inventory[j.self], item)
           THEN /\ queue' = Tail(queue)
                /\ ret' = FireRet(j.self, "rejected", NoItem, 0)
           ELSE IF j.ignoreQuantity
           THEN /\ queue' = Tail(queue)
                /\ ret' = FireRet(j.self, "resolved", NoItem, 0)
           ELSE /\ queue' = Append(Tail(queue),
                                   FireJob("fireAmmo", j.self, ammo, FALSE, 1))
                /\ ret' = ret
    /\ UNCHANGED <<sessionVars, redis, user_id, commands, sinceMove, targetVars, stats, itemVars, placeVars>>

\* fireRangedWeapon, the callback of getEquipped('ammo'): one round is taken
\* from the ammunition found by the callback before, which leaves the
\* inventory when none is left
FireAmmo ==
    /\ queue # <<>>
    /\ Head(queue).k = "fireAmmo"
    /\ Head(queue).hops = 1
    /\ LET j == Head(queue)
           left == removeDurability(item, j.a, 1)
           heap1 == [item EXCEPT ![j.a].durability = left]
       IN  /\ inventory' = [inventory EXCEPT ![j.self] =
                               IF left <= 0 THEN itemManagerRemove(@, j.a) ELSE @]
           /\ item' = Collect(inventory', heap1, Tail(queue))
           /\ ret' = FireRet(j.self, "resolved", j.a, item[j.a].durability)
    /\ queue' = Tail(queue)
    /\ UNCHANGED <<sessionVars, redis, user_id, commands, sinceMove, targetVars, stats, placeVars>>

\* fireRangedWeapon, the last .catch
FireCatch ==
    /\ queue # <<>>
    /\ Head(queue).k = "fireCatch"
    /\ Head(queue).hops = 1
    /\ queue' = Tail(queue)
    /\ ret' = FireRet(Head(queue).self, "rejected", NoItem, 0)
    /\ UNCHANGED <<sessionVars, redis, user_id, commands, sinceMove, targetVars, stats, itemVars, placeVars>>

\* --------------------------------------------------------------- inventory
\* Character.inventorySpaceLeft
inventorySpaceLeft(c) == stats[c].inventorySize - Len(inventory[c])

FindByIdNever(inv, heap, id) == 0

\* the first inventory entry of a template (Array.find on obj.id); 0 = none
FindById(inv, heap, id) ==
    IF \E k \in 1..Len(inv) : heap[inv[k]].id = id
    THEN CHOOSE k \in 1..Len(inv) :
            /\ heap[inv[k]].id = id
            /\ \A j \in 1..(k - 1) : heap[inv[j]].id # id
    ELSE 0

\* hasRoomForItem that asks for a free place even when the stack exists
hasRoomForItemIgnoresStack(c, id, amount) ==
    IF Template(id).stackable
    THEN ~(inventorySpaceLeft(c) <= 0)
    ELSE LET n == IF amount = 0 THEN 1 ELSE amount
         IN  ~(inventorySpaceLeft(c) - n < 0)

\* hasRoomForItem that lets one item too many through
hasRoomForItemOffByOne(c, id, amount) ==
    IF Template(id).stackable
    THEN ~(FindById(inventory[c], item, id) = 0 /\ inventorySpaceLeft(c) < 0)
    ELSE LET n == IF amount = 0 THEN 1 ELSE amount
         IN  ~(inventorySpaceLeft(c) - n < -1)

\* Character.hasRoomForItem(itemObj, amount); amount 0 stands for null
hasRoomForItem(c, id, amount) ==
    IF Template(id).stackable
    THEN ~(FindById(inventory[c], item, id) = 0 /\ inventorySpaceLeft(c) <= 0)
    ELSE LET n == IF amount = 0 THEN 1 ELSE amount
         IN  ~(inventorySpaceLeft(c) - n < 0)

\* the for loop of Character.giveItem: n more objects of the template are
\* created (ItemManager.add) and pushed, one recursive giveItem(.., 1) each;
\* ok is FALSE when the model's heap has no cell left for one of them
RECURSIVE GiveMore(_, _, _, _, _, _)
GiveMore(inv, heap, q, c, id, n) ==
    IF n <= 0 THEN [ok |-> TRUE, inventory |-> inv, item |-> heap]
    ELSE LET i == NewItemId(inv, heap, q)
         IN  IF i = NoItem THEN [ok |-> FALSE, inventory |-> inv, item |-> heap]
             ELSE GiveMore([inv EXCEPT ![c] = Append(@, i)],
                           itemManagerAdd(heap, i, id, Template(id).durability),
                           q, c, id, n - 1)

\* giveItem that adds one unit too many to the stack
giveItemOneMore(inv, heap, q, c, i, amount) ==
    LET k == FindById(inv[c], heap, heap[i].id)
    IN  IF k # 0
        THEN [ok |-> TRUE, inventory |-> inv,
              item |-> [heap EXCEPT ![inv[c][k]].durability = @ + amount + 1]]
        ELSE [ok |-> TRUE, inventory |-> [inv EXCEPT ![c] = Append(@, i)], item |-> heap]

\* Character.giveItem(itemObj, amount) for the item object i; amount 0 = null
giveItem(inv, heap, q, c, i, amount) ==
    LET id == heap[i].id
    IN  IF Template(id).stackable
        THEN LET n == IF amount = 0 THEN heap[i].durability ELSE amount
                 k == FindById(inv[c], heap, id)
             IN  IF k # 0
                 THEN [ok |-> TRUE, inventory |-> inv,
                       item |-> [heap EXCEPT ![inv[c][k]].durability = @ + n]]
                 ELSE [ok |-> TRUE, inventory |-> [inv EXCEPT ![c] = Append(@, i)],
                       item |-> [heap EXCEPT ![i].durability = n]]
        ELSE LET pushed == [inv EXCEPT ![c] = Append(@, i)]
             IN  IF amount = 0
                 THEN [ok |-> TRUE, inventory |-> pushed, item |-> heap]
                 ELSE GiveMore(pushed, heap, q, c, id, amount - 1)

\* what dropItem / takeItem hand back: nothing, an exception, or an item
NullRes == [kind |-> "null", id |-> "", durability |-> 0, equipped_slot |-> ""]
ThrowRes == [kind |-> "TypeError", id |-> "", durability |-> 0, equipped_slot |-> ""]
ItemRes(rec) == [kind |-> "item", id |-> rec.id, durability |-> rec.durability,
                 equipped_slot |-> rec.equipped_slot]

\* selectors of dropItem: an inventory index (counted from 0 as in the code)
\* or a name
ByIndex(n) == [t |-> "index", n |-> n, name |-> <<>>]
ByName(name) == [t |-> "name", n |-> 0, name |-> name]

\* the index dropItem settles on, counted from 0; -1 = no item found
DropIndex(inv, heap, sel) ==
    IF sel.t = "index" THEN sel.n
    ELSE LET wanted == toLowerCase(sel.name)
             hit(k) == StartsWith(toLowerCase(Template(heap[inv[k]].id).name), wanted)
         IN  IF \E k \in 1..Len(inv) : hit(k)
             THEN (CHOOSE k \in 1..Len(inv) : hit(k) /\ \A j \in 1..(k - 1) : ~hit(j)) - 1
             ELSE -1

\* Character.dropItem(item, amount, isFleeing): every outcome it can have (the
\* amount a fleeing character drops of a stack is random), each the
\* character's inventory, the item heap, the job queue and the return value
dropItem(inv, heap, q, c, sel, amount, isFleeing) ==
    LET itemIndex == DropIndex(inv, heap, sel)
        same(res) == {[inventory |-> inv, item |-> heap, queue |-> q, res |-> res]}
    IN  IF itemIndex = -1 THEN same(NullRes)
        ELSE IF itemIndex + 1 \notin 1..Len(inv) THEN same(ThrowRes)
        ELSE
        LET k == itemIndex + 1
            i == inv[k]
            q1 == IF isFleeing /\ heap[i].slot # ""
                  THEN unEquipQueue(q, inv, heap, c, heap[i].slot)
                  ELSE q
            whole == [inventory |-> RemoveAt(inv, k), item |-> heap, queue |-> q1,
                      res |-> ItemRes(heap[i])]
        IN  IF heap[i].slot # "" /\ ~isFleeing THEN same(NullRes)
            ELSE IF ~Template(heap[i].id).stackable THEN {whole}
            ELSE IF heap[i].durability < amount
                 THEN {[inventory |-> inv, item |-> heap, queue |-> q1, res |-> NullRes]}
            ELSE
            LET amounts == IF isFleeing
                           THEN IF heap[i].durability >= 1
                                THEN 1..heap[i].durability ELSE {1}
                           ELSE {amount}
            IN  {IF heap[i].durability - a <= 0 THEN whole
                 ELSE [inventory |-> inv,
                       item |-> [heap EXCEPT ![i].durability = @ - a],
                       queue |-> q1,
                       res |-> ItemRes(ItemRec(heap[i].id, a))] : a \in amounts}

\* a caller creates an item object of a template and gives it to the character
GiveItem(c, id, amount) ==
    /\ LET i == NewItemId(inventory, item, queue)
       IN  /\ i # NoItem
           /\ LET r == giveItem(inventory,
                                itemManagerAdd(item, i, id, Template(id).durability),
                                queue, c, i, amount)
              IN  /\ r.ok
                  /\ \A j \in ItemIds : Template(r.item[j].id).stackable
                                          => r.item[j].durability <= MaxStack
                  /\ inventory' = r.inventory
                  /\ item' = Collect(r.inventory, r.item, queue)
    /\ ret' = Ret("giveItem", c, 0, "undefined")
    /\ UNCHANGED <<sessionVars, redis, user_id, commands, sinceMove, targetVars, stats, placeVars, queue>>

\* Character.dropItem called by a command handler
DropItem(c, sel, amount, isFleeing) ==
    /\ \E o \in dropItem(inventory[c], item, queue, c, sel, amount, isFleeing) :
          /\ Len(o.queue) <= MaxQueue
          /\ inventory' = [inventory EXCEPT ![c] = o.inventory]
          /\ queue' = o.queue
          /\ item' = Collect(inventory', o.item, o.queue)
          /\ ret' = [op |-> "dropItem", self |-> c, arg |-> 0, res |-> o.res,
                     isFleeing |-> isFleeing]
    /\ UNCHANGED <<sessionVars, redis, user_id, commands, sinceMove, targetVars, stats, placeVars>>

\* the template and the quantity of every inventory entry, in order
Quantities(inv, heap) ==
    [k \in 1..Len(inv) |-> [id |-> heap[inv[k]].id, durability |-> heap[inv[k]].durability]]

\* giveItem(itemObj, amount) followed by dropItem(name of the item, amount)
GiveThenDrop(c, id, amount) ==
    LET i == NewItemId(inventory, item, queue)
        g == giveItem(inventory, itemManagerAdd(item, i, id, Template(id).durability),
                      queue, c, i, amount)
    IN  /\ i # NoItem
        /\ g.ok
        /\ \E o \in dropItem(g.inventory[c], g.item, queue, c,
                              ByName(Template(id).name), amount, FALSE) :
              /\ inventory' = [g.inventory EXCEPT ![c] = o.inventory]
              /\ item' = Collect(inventory', o.item, o.queue)
              /\ queue' = o.queue
              /\ ret' = [op |-> "giveThenDrop", self |-> c, arg |-> amount, id |-> id,
                         before |-> Quantities(inventory[c], item), res |-> o.res]
        /\ UNCHANGED <<sessionVars, redis, user_id, commands, sinceMove, targetVars, stats, placeVars>>

\* ---------------------------------------------------------------- targeting
\* Character.setTarget, synchronous part: release, then defer the assignment
SetTarget(c, t) ==
    /\ Len(queue) < MaxQueue
    /\ LET r == releaseTarget(target, targetedBy, c)
       IN  /\ target' = r.target
           /\ targetedBy' = r.targetedBy
    /\ queue' = Append(queue, Job("setTarget", c, t, NoItem, "", 1))
    /\ ret' = Ret("setTarget", c, t, "undefined")
    /\ UNCHANGED <<sessionVars, redis, user_id, commands, sinceMove, stats, itemVars, placeVars>>

\* Character.setTarget, the .then callback
SetTargetThen ==
    /\ queue # <<>>
    /\ Head(queue).k = "setTarget"
    /\ Head(queue).hops = 1
    /\ LET c == Head(queue).self
           t == Head(queue).a
       IN  /\ target' = [target EXCEPT ![c] = t]
           /\ targetedBy' = [targetedBy EXCEPT ![t] = gridLock(@, c)]
    /\ queue' = Tail(queue)
    /\ UNCHANGED <<sessionVars, redis, user_id, commands, sinceMove, stats, itemVars, placeVars, ret>>

\* Character.releaseTarget called on its own
ReleaseTarget(c) ==
    /\ LET r == releaseTarget(target, targetedBy, c)
       IN  /\ target' = r.target
           /\ targetedBy' = r.targetedBy
    /\ ret' = Ret("releaseTarget", c, 0, "promise")
    /\ UNCHANGED <<sessionVars, redis, user_id, commands, sinceMove, stats, itemVars, placeVars, queue>>

\* -------------------------------------------------------------------- stats
Max(a, b) == IF a >= b THEN a ELSE b
Min(a, b) == IF a <= b THEN a ELSE b

\* Math.round(x * 100) / 100 and Math.round(x) on an integer x
RoundCents(x) == (x * 100) \div 100
Round(x) == x

\* updateCash without the floor at 0
updateCashNoFloor(st, amount) == [st EXCEPT !.money = RoundCents(st.money + amount)]

updateCash(st, amount) == [st EXCEPT !.money = Max(0, RoundCents(st.money + amount))]
updateBank(st, amount) == [st EXCEPT !.bank = Max(0, RoundCents(st.bank + amount))]
updateExp(st, amount) == [st EXCEPT !.exp = Max(0, Round(st.exp + amount))]
updateHealth(st, amount) ==
    LET newHealth == Max(0, Round(st.health + amount))
    IN  [st EXCEPT !.health = IF newHealth > st.health_max THEN st.health_max
                              ELSE newHealth]

UpdateCash(c, amount) ==
    /\ stats[c].money + amount <= MaxStat
    /\ stats' = [stats EXCEPT ![c] = updateCash(@, amount)]
    /\ ret' = Ret("updateCash", c, amount, stats'[c].money)
    /\ UNCHANGED <<sessionVars, redis, user_id, commands, sinceMove, targetVars, itemVars, placeVars, queue>>

UpdateBank(c, amount) ==
    /\ stats[c].bank + amount <= MaxStat
    /\ stats' = [stats EXCEPT ![c] = updateBank(@, amount)]
    /\ ret' = Ret("updateBank", c, amount, stats'[c].bank)
    /\ UNCHANGED <<sessionVars, redis, user_id, commands, sinceMove, targetVars, itemVars, placeVars, queue>>

UpdateExp(c, amount) ==
    /\ stats[c].exp + amount <= MaxStat
    /\ stats' = [stats EXCEPT ![c] = updateExp(@, amount)]
    /\ ret' = Ret("updateExp", c, amount, stats'[c].exp)
    /\ UNCHANGED <<sessionVars, redis, user_id, commands, sinceMove, targetVars, itemVars, placeVars, queue>>

UpdateHealth(c, amount) ==
    /\ stats' = [stats EXCEPT ![c] = updateHealth(@, amount)]
    /\ ret' = Ret("updateHealth", c, amount, stats'[c].health)
    /\ UNCHANGED <<sessionVars, redis, user_id, commands, sinceMove, targetVars, itemVars, placeVars, queue>>

\* ------------------------------------------------------------------- combat
\* dealDamage whose armor blocks its whole rating whatever its durability
damageResultIgnoresDurability(health, heap, armorItem, damage, ignoreArmor) ==
    LET used == ~ignoreArmor /\ armorItem # NoItem
        durability == IF used THEN heap[armorItem].durability ELSE 0
        armor == IF used THEN Template(heap[armorItem].id).damage_reduction ELSE 0
        damageBlocked == Min(damage, armor)
        damageDealt == Max(0, damage - damageBlocked)
        durabilityLeft == Max(0, durability - damage)
    IN  [damageBlocked |-> damageBlocked,
         damageDealt |-> damageDealt,
         healthLeft |-> Max(0, health - damageDealt),
         durabilityLeft |-> durabilityLeft,
         armorRuined |-> (durabilityLeft = 0 /\ durability # 0)]

\* the object dealDamage returns, computed from the health, the equipped armor
\* (NoItem = none) and the arguments
damageResult(health, heap, armorItem, damage, ignoreArmor) ==
    LET used == ~ignoreArmor /\ armorItem # NoItem
        durability == IF used THEN heap[armorItem].durability ELSE 0
        armor == IF used THEN Template(heap[armorItem].id).damage_reduction ELSE 0
        damageBlocked == Min(damage, Min(armor, durability))
        damageDealt == Max(0, damage - damageBlocked)
        durabilityLeft == Max(0, durability - damage)
    IN  [damageBlocked |-> damageBlocked,
         damageDealt |-> damageDealt,
         healthLeft |-> Max(0, health - damageDealt),
         durabilityLeft |-> durabilityLeft,
         armorRuined |-> (durabilityLeft = 0 /\ durability # 0)]

\* what dealDamage hands to ItemManager.remove when the armor is ruined: the
\* local `armor`, which holds the armor's damage_reduction (a number), not the
\* armor item object
RuinedArmorArgument(armorItem) == NoItem

\* Character.dealDamage(damage, ignoreArmor)
DealDamage(c, damage, ignoreArmor) ==
    LET armorItem == getEquippedSync(inventory[c], item, "armor")
        r == damageResult(stats[c].health, item, armorItem, damage, ignoreArmor)
        heap1 == IF ~ignoreArmor /\ armorItem # NoItem
                 THEN [item EXCEPT ![armorItem].durability = r.durabilityLeft]
                 ELSE item
    IN  /\ r.durabilityLeft <= MaxDurability
        /\ stats' = [stats EXCEPT ![c].health = r.healthLeft]
        /\ inventory' = [inventory EXCEPT ![c] =
                            IF r.armorRuined
                            THEN itemManagerRemove(@, RuinedArmorArgument(armorItem))
                            ELSE @]
        /\ item' = Collect(inventory', heap1, queue)
        /\ ret' = [op |-> "dealDamage", self |-> c, arg |-> damage, res |-> r,
                   ignoreArmor |-> ignoreArmor, armorItem |-> armorItem]
        /\ UNCHANGED <<sessionVars, redis, user_id, commands, sinceMove, targetVars, placeVars, queue>>

\* ----------------------------------------------------------------- movement
\* x + d in JavaScript where x may be undefined or NaN
AddCoord(v, d) == IF v = Undefined \/ v = NaN THEN NaN ELSE v + d

\* newLocation[moveAction.grid] = newLocation[moveAction.grid] + direction;
\* a grid that is neither 'x' nor 'y' writes a property nothing reads
Step(loc, grid, direction) ==
    CASE grid = "x" -> [loc EXCEPT !.x = AddCoord(@, direction)]
      [] grid = "y" -> [loc EXCEPT !.y = AddCoord(@, direction)]
      [] OTHER      -> loc

\* the coordinates the model follows a character to: the map, one cell
\* around it, and the values that are no number
InModel(v) == v = Undefined \/ v = NaN \/ v \in -1..GridSize

\* GameMap.isValidPostion(x, y): the cell lies on the map
isValidPostion(x, y) == x \in 0..(GridSize - 1) /\ y \in 0..(GridSize - 1)

\* Character.updateLocation(map, x, y)
updateLocation(loc, map, x, y) ==
    [map |-> IF map = "" THEN loc.map ELSE map, x |-> x, y |-> y]

ticksLeftNever(cds, action) == 0

ticksLeftByDuration(cds, action) ==
    IF \E k \in 1..Len(cds) : cds[k].action = action
    THEN LET k == CHOOSE k \in 1..Len(cds) :
                     /\ cds[k].action = action
                     /\ \A j \in 1..(k - 1) : cds[j].action # action
         IN  cds[k].duration
    ELSE 0

\* CooldownManager.ticksLeft(character, action)
ticksLeft(cds, action) ==
    IF \E k \in 1..Len(cds) : cds[k].action = action /\ cds[k].ticks > 0
    THEN LET k == CHOOSE k \in 1..Len(cds) :
                     /\ cds[k].action = action /\ cds[k].ticks > 0
                     /\ \A j \in 1..(k - 1) : ~(cds[j].action = action /\ cds[j].ticks > 0)
         IN  Max(0, cds[k].ticks)
    ELSE 0

\* new Cooldown(action, duration, autostart); id names the object, age counts
\* the periods of its timer since it was started, remove is the flag the ended
\* timer raises
Cooldown(action, duration, autostart) ==
    [id |-> 0, action |-> action, duration |-> duration, ticks |-> duration,
     started |-> autostart, age |-> 0, remove |-> FALSE]

\* the cooldown objects a character's list or a pending move still refers to
CooldownIds(cds, q, c) ==
    {cds[k].id : k \in 1..Len(cds)}
        \cup {q[k].cd : k \in {i \in 1..Len(q) : q[i].self = c}}

\* the identity of the next cooldown object of character c
NewCooldownId(cds, q, c) ==
    CHOOSE id \in 1..MaxCooldowns :
        /\ id \notin CooldownIds(cds, q, c)
        /\ \A other \in 1..(id - 1) : other \in CooldownIds(cds, q, c)

cooldownAddExpired(cds, action, id) ==
    Append(cds, [Cooldown(action, 0, FALSE) EXCEPT !.id = id])

\* CooldownManager.add(character, action) with the configured duration
cooldownAdd(cds, action, id) ==
    Append(cds, [Cooldown(action, MoveTicks, FALSE) EXCEPT !.id = id])

\* newCooldown.start() on the object id, wherever it is in the list (a reaped
\* object is in no list any more)
cooldownStart(cds, id) ==
    [k \in 1..Len(cds) |-> IF cds[k].id = id THEN [cds[k] EXCEPT !.started = TRUE]
                                               ELSE cds[k]]

\* CooldownManager.cleanup(character): filter((obj) => obj.remove)
cleanup(cds) == SelectSeq(cds, LAMBDA obj : obj.remove)

\* CharacterManager.move(socket, moveAction): the character is looked up, the
\* rest deferred
Move(c, grid, direction) ==
    /\ Len(queue) < MaxQueue
    /\ queue' = Append(queue, MoveJob("moveGet", c, NoLoc, grid, direction, 0, 1))
    /\ ret' = Ret("move", c, 0, "undefined")
    /\ UNCHANGED <<sessionVars, redis, user_id, commands, sinceMove, targetVars, stats, itemVars, placeVars>>

\* Game.eventToSocket(socket, type, message): an event for one socket
ToSocket(c, type) == [to |-> "socket", who |-> c, room |-> NoLoc, type |-> type]

\* Game.eventToRoom / socketManager.dispatchToRoom(roomId, ...): an event for
\* every socket in the room of a cell
ToRoom(c, loc, type) == [to |-> "room", who |-> c, room |-> loc, type |-> type]

\* what a step of move did: its outcome and the events it emitted, in order
MoveRet(op, c, res, events) ==
    [op |-> op, self |-> c, arg |-> 0, res |-> res, events |-> events]

moveDeniedIgnoresHidden(tb, hid) == tb # <<>>

\* move: the character is gridlocked (aimed at) or hidden
moveDenied(tb, hid) == tb # <<>> \/ hid

\* move, the callback of get(): the gates, the cooldown, the validity lookup
MoveGet ==
    /\ queue # <<>>
    /\ Head(queue).k = "moveGet"
    /\ Head(queue).hops = 1
    /\ LET j == Head(queue)
           c == j.self
           newLocation == Step(location[c], j.s, j.dir)
           ids == CooldownIds(cooldowns[c], queue, c)
           newCooldown == NewCooldownId(cooldowns[c], queue, c)
       IN  IF moveDenied(targetedBy[c], hidden[c])
           THEN /\ queue' = Tail(queue)
                /\ ret' = MoveRet("moveGet", c, "denied", <<ToSocket(c, "warning")>>)
                /\ UNCHANGED cooldowns
           ELSE IF ticksLeft(cooldowns[c], "move") # 0
           THEN /\ queue' = Tail(queue)
                /\ ret' = MoveRet("moveGet", c, "cooldown", <<>>)
                /\ UNCHANGED cooldowns
           ELSE /\ Len(cooldowns[c]) < MaxCooldowns
                /\ \E id \in 1..MaxCooldowns : id \notin ids
                /\ cooldowns' = [cooldowns EXCEPT ![c] = cooldownAdd(@, "move", newCooldown)]
                /\ ret' = MoveRet("moveGet", c, "pending", <<>>)
                /\ queue' = Append(Tail(queue),
                        IF isValidPostion(newLocation.x, newLocation.y)
                        THEN MoveJob("moveValid", c, newLocation, j.s, j.dir,
                                     newCooldown, 1)
                        ELSE MoveJob("moveInvalid", c, newLocation, j.s, j.dir,
                                     newCooldown, 2))
    /\ UNCHANGED <<sessionVars, redis, user_id, commands, sinceMove, targetVars, stats, itemVars, location, hidden>>

\* move, the callback of isValidLocation: the target is released, the rest
\* deferred behind releaseTarget().  stale records whether the character was
\* gridlocked or hidden when the awaited validation completed.
MoveValid ==
    /\ queue # <<>>
    /\ Head(queue).k = "moveValid"
    /\ Head(queue).hops = 1
    /\ LET j == Head(queue)
           c == j.self
           r == releaseTarget(target, targetedBy, c)
       IN  /\ target' = r.target
           /\ targetedBy' = r.targetedBy
           /\ ret' = MoveRet("moveValid", c, "released", <<>>)
           /\ queue' = Append(Tail(queue),
                   [j EXCEPT !.k = "moveDone",
                             !.stale = moveDenied(targetedBy[c], hidden[c])])
    /\ UNCHANGED <<sessionVars, redis, user_id, commands, sinceMove, stats, itemVars, placeVars>>

\* move, the .catch of isValidLocation: the invalid move is logged
MoveInvalid ==
    /\ queue # <<>>
    /\ Head(queue).k = "moveInvalid"
    /\ Head(queue).hops = 1
    /\ queue' = Tail(queue)
    /\ ret' = MoveRet("moveInvalid", Head(queue).self, "invalid", <<>>)
    /\ UNCHANGED <<sessionVars, redis, user_id, commands, sinceMove, targetVars, stats, itemVars, placeVars>>

moveEffectsJoinOldRoom(c, oldLocation, newLocation) ==
    <<ToRoom(c, oldLocation, "left"), ToRoom(c, oldLocation, "joined"),
      ToSocket(c, "update"), ToSocket(c, "cooldown started")>>

\* move, the callback of releaseTarget(): what is sent, in order.  The 'leaves'
\* event and LEFT_GRID go to the room of the location before updateLocation,
\* 'strolls in' and the joined-grid dispatch to the room of the location after
\* it, then the mover's own client is updated and the cooldown started.
moveEffects(c, oldLocation, newLocation) ==
    <<ToRoom(c, oldLocation, "left"), ToRoom(c, newLocation, "joined"),
      ToSocket(c, "update"), ToSocket(c, "cooldown started")>>

\* move, the callback of releaseTarget(): the location is updated and the
\* cooldown started
MoveDone ==
    /\ queue # <<>>
    /\ Head(queue).k = "moveDone"
    /\ Head(queue).hops = 1
    /\ LET j == Head(queue)
           c == j.self
           newLocation == updateLocation(location[c], j.loc.map, j.loc.x, j.loc.y)
       IN  /\ location' = [location EXCEPT ![c] = newLocation]
           /\ cooldowns' = [cooldowns EXCEPT ![c] = cooldownStart(@, j.cd)]
           /\ sinceMove' = [sinceMove EXCEPT ![c] = 0]
           /\ ret' = MoveRet("moveDone", c, "moved", moveEffects(c, location[c], newLocation))
    /\ queue' = Tail(queue)
    /\ UNCHANGED <<sessionVars, redis, user_id, commands, targetVars, stats, itemVars, hidden>>

\* one period of the cooldown timers of character c elapses: every started
\* cooldown that has ticks left loses one, and ends when none is left
Tick(c) ==
    /\ \/ sinceMove[c] < MoveTicks
       \/ \E k \in 1..Len(cooldowns[c]) : cooldowns[c][k].started /\ cooldowns[c][k].ticks > 0
    /\ LET cds == cooldowns[c]
       IN  cooldowns' = [cooldowns EXCEPT ![c] =
               [k \in 1..Len(cds) |->
                   IF cds[k].started /\ cds[k].ticks > 0
                   THEN [cds[k] EXCEPT !.ticks = cds[k].ticks - 1,
                                       !.age = cds[k].age + 1,
                                       !.remove = (cds[k].ticks = 1)]
                   ELSE cds[k]]]
    /\ sinceMove' = [sinceMove EXCEPT ![c] = Min(MoveTicks, @ + 1)]
    /\ UNCHANGED <<sessionVars, redis, user_id, commands, targetVars, stats, itemVars, location, hidden, queue, ret>>

\* the cooldownGc interval of character c fires
Cleanup(c) ==
    /\ cleanup(cooldowns[c]) # cooldowns[c]
    /\ cooldowns' = [cooldowns EXCEPT ![c] = cleanup(@)]
    /\ ret' = Ret("cleanup", c, 0, "undefined")
    /\ UNCHANGED <<sessionVars, redis, user_id, commands, sinceMove, targetVars, stats, itemVars, location, hidden, queue>>

\* the hide and unhide commands: Character.hidden is written
SetHidden(c, h) ==
    /\ hidden[c] # h
    /\ hidden' = [hidden EXCEPT ![c] = h]
    /\ ret' = Ret("hide", c, 0, h)
    /\ UNCHANGED <<sessionVars, redis, user_id, commands, sinceMove, targetVars, stats, itemVars, location, cooldowns, queue>>

\* --------------------------------------------------------------------- flee
\* Character.dropRandomItem, n times in a row: every outcome (the item picked
\* is random), each an inventory, the item heap and the job queue
RECURSIVE dropRandomItems(_, _, _, _, _)
dropRandomItems(inv, heap, q, c, n) ==
    IF n = 0 \/ inv = <<>> THEN {[inventory |-> inv, item |-> heap, queue |-> q]}
    ELSE UNION {
            UNION {dropRandomItems(o.inventory, o.item, o.queue, c, n - 1) :
                     o \in dropItem(inv, heap, q, c,
                                    ByName(toLowerCase(Template(heap[inv[k]].id).name)),
                                    1, TRUE)} :
            k \in 1..Len(inv)}

\* the flee command: the character is looked up, the rest deferred
Flee(c, grid, direction) ==
    /\ Len(queue) < MaxQueue
    /\ queue' = Append(queue, MoveJob("fleeGet", c, NoLoc, grid, direction, 0, 1))
    /\ ret' = Ret("flee", c, 0, "undefined")
    /\ UNCHANGED <<sessionVars, redis, user_id, commands, sinceMove, targetVars, stats, itemVars, placeVars>>

\* flee, the callback of get(): only a character somebody aims at flees; the
\* map is looked up
FleeGet ==
    /\ queue # <<>>
    /\ Head(queue).k = "fleeGet"
    /\ Head(queue).hops = 1
    /\ LET j == Head(queue)
           c == j.self
       IN  queue' = IF targetedBy[c] = <<>> THEN Tail(queue)
                    ELSE Append(Tail(queue),
                                MoveJob("fleeMap", c, Step(location[c], j.s, j.dir),
                                        j.s, j.dir, 0, 1))
    /\ UNCHANGED <<sessionVars, redis, user_id, commands, sinceMove, targetVars, stats, itemVars, placeVars, ret>>

\* flee, the callback of mapManager.get(): an invalid step is flipped, items
\* are dropped, the target released, the gridlock reset, the location updated
FleeMap ==
    /\ queue # <<>>
    /\ Head(queue).k = "fleeMap"
    /\ Head(queue).hops = 1
    /\ LET j == Head(queue)
           c == j.self
           flipped == IF j.dir = 1 THEN -1 ELSE 1
           newLocation ==
               IF isValidPostion(j.loc.x, j.loc.y) THEN j.loc
               ELSE [map |-> location[c].map,
                     x |-> IF j.s = "x" THEN AddCoord(location[c].x, flipped) ELSE Undefined,
                     y |-> IF j.s = "y" THEN AddCoord(location[c].y, flipped) ELSE Undefined]
           r == IF target[c] # NoChar THEN releaseTarget(target, targetedBy, c)
                ELSE [target |-> target, targetedBy |-> targetedBy]
       IN  /\ InModel(newLocation.x) /\ InModel(newLocation.y)
           /\ \E itemsToDrop \in 1..3 :
                \E o \in dropRandomItems(inventory[c], item, Tail(queue), c, itemsToDrop + 1) :
                   /\ inventory' = [inventory EXCEPT ![c] = o.inventory]
                   /\ queue' = o.queue
                   /\ item' = Collect(inventory', o.item, o.queue)
           /\ target' = r.target
           /\ targetedBy' = [r.targetedBy EXCEPT ![c] = <<>>]
           /\ location' = [location EXCEPT ![c] =
                              updateLocation(@, newLocation.map, newLocation.x, newLocation.y)]
    /\ UNCHANGED <<sessionVars, redis, user_id, commands, sinceMove, stats, hidden, cooldowns, ret>>

\* --------------------------------------------------------------------- kill
\* the cell characters start from and respawn at
Spawn == [map |-> "map1", x |-> 1, y |-> 1]

\* the callback of die() in CharacterManager.kill, pending with the dropped
\* loot: the cash, the exp and the characters that aimed at the dead
KillJob(c, cash, exp, attackers) ==
    [k |-> "killThen", self |-> c, a |-> 0, b |-> 0, s |-> "", hops |-> 1,
     loc |-> NoLoc, dir |-> 0, cd |-> 0, stale |-> FALSE,
     cash |-> cash, exp |-> exp, attackers |-> attackers]

\* ---------------------------------------------------------------------- die
\* the item objects of an inventory, in its order
itemsOf(inv, heap) == [k \in 1..Len(inv) |-> heap[inv[k]]]

\* a reset that leaves the cash with the dead
dieResetKeepsCash(st) == [st EXCEPT !.health = st.health_max]

\* die: "reset the character inventory, money, gridlock etc." on the stats
dieReset(st) == [st EXCEPT !.money = 0, !.health = st.health_max]

\* Character.die, synchronous part: the target is released, the rest deferred
Die(c) ==
    /\ Len(queue) < MaxQueue
    /\ LET r == releaseTarget(target, targetedBy, c)
       IN  /\ target' = r.target
           /\ targetedBy' = r.targetedBy
    /\ queue' = Append(queue, Job("die", c, NoChar, NoItem, "", 1))
    /\ ret' = [op |-> "die", self |-> c, arg |-> 0, res |-> "promise",
               prior |-> [items |-> itemsOf(inventory[c], item),
                          money |-> stats[c].money,
                          targetedBy |-> targetedBy[c]]]
    /\ UNCHANGED <<sessionVars, redis, user_id, commands, sinceMove, stats, itemVars, placeVars>>

\* Character.die, the .then callback: snapshot, reset, resolve
DieThen ==
    /\ queue # <<>>
    /\ Head(queue).k = "die"
    /\ Head(queue).hops = 1
    /\ LET c == Head(queue).self
           items == itemsOf(inventory[c], item)
           expLost == 0
           reset == dieReset(stats[c])
       IN  /\ inventory' = [inventory EXCEPT ![c] = <<>>]
           /\ item' = Collect(inventory', item, Tail(queue))
           /\ targetedBy' = [targetedBy EXCEPT ![c] = <<>>]
           /\ stats' = [stats EXCEPT ![c] =
                            IF user_id[c] # 0 THEN updateExp(reset, expLost * (-1))
                            ELSE reset]
           /\ ret' = Ret("dieResolved", c, 0,
                         [items |-> items, cash |-> stats[c].money, exp |-> expLost,
                          targetedBy |-> targetedBy[c]])
    /\ queue' = IF Head(queue).s = "kill"
                 THEN Append(Tail(queue),
                             KillJob(Head(queue).self, stats[Head(queue).self].money,
                                     0, targetedBy[Head(queue).self]))
                 ELSE Tail(queue)
    /\ UNCHANGED <<sessionVars, redis, user_id, commands, sinceMove, target, placeVars>>

\* a reward that hands every attacker the whole amount
rewardWhole(amount, n) == amount

\* Math.floor(amount / n) for an amount >= 0
reward(amount, n) ==
    IF n = 0 THEN (IF amount = 0 THEN NaN ELSE Infinity)
    ELSE amount \div n

\* CharacterManager.kill(user_id, killer): the character and its map are
\* found, then character.die() releases its target and defers the rest
Kill(c) ==
    /\ Len(queue) < MaxQueue
    /\ LET r == releaseTarget(target, targetedBy, c)
       IN  /\ target' = r.target
           /\ targetedBy' = r.targetedBy
    /\ queue' = Append(queue, Job("die", c, NoChar, NoItem, "kill", 1))
    /\ ret' = [op |-> "kill", self |-> c, arg |-> 0, res |-> "promise"]
    /\ UNCHANGED <<sessionVars, redis, user_id, commands, sinceMove, stats, itemVars, placeVars>>

\* kill, the callback of die(): the dead is moved to the respawn cell of its
\* map and every character that aimed at it gets its share of the cash and,
\* if it is a player, of the exp
KillThen ==
    /\ queue # <<>>
    /\ Head(queue).k = "killThen"
    /\ Head(queue).hops = 1
    /\ LET j == Head(queue)
           n == Len(j.attackers)
           cashReward == reward(j.cash, n)
           expReward == reward(j.exp, n)
       IN  /\ stats' = [c \in Chars |->
                          IF c \in Range(j.attackers)
                          THEN IF user_id[c] # 0
                               THEN updateExp(updateCash(stats[c], cashReward), expReward)
                               ELSE updateCash(stats[c], cashReward)
                          ELSE stats[c]]
           /\ location' = [location EXCEPT ![j.self] =
                              updateLocation(@, Spawn.map, Spawn.x, Spawn.y)]
           /\ ret' = [op |-> "killThen", self |-> j.self, arg |-> 0, res |-> "resolved",
                      cash |-> j.cash, attackers |-> j.attackers,
                      cashReward |-> cashReward, expReward |-> expReward]
    /\ queue' = Tail(queue)
    /\ UNCHANGED <<sessionVars, redis, user_id, commands, sinceMove, targetVars, itemVars, hidden, cooldowns>>

\* ----------------------------------------------------- parameter validation
Quote == "\""

\* the values a parameter slot holds: the text typed, and what the rules
\* coerce it to
Str(s) == [t |-> "string", s |-> s, n |-> 0]
Num(n) == [t |-> "number", s |-> <<>>, n |-> n]
Obj(kind, name) == [t |-> kind, s |-> name, n |-> 0]
UndefinedValue == [t |-> "undefined", s |-> <<>>, n |-> 0]

\* !value
falsy(v) ==
    \/ v.t = "undefined"
    \/ v.t = "string" /\ v.s = <<>>
    \/ v.t = "number" /\ v.n \in {0, NaN}

\* String.prototype.substring(start, end): both clamped to the string, swapped
\* when start > end
substring(s, start, end) ==
    LET a == Max(0, Min(start, Len(s)))
        b == Max(0, Min(end, Len(s)))
    IN  SubSeq(s, Min(a, b) + 1, Max(a, b))

\* CommandManager.stripEncapsulation(param)
stripEncapsulation(param) ==
    LET p1 == IF param # <<>> /\ param[1] = Quote
              THEN substring(param, 1, Len(param) - 1)
              ELSE param
    IN  IF p1 # <<>> /\ p1[Len(p1)] = Quote
        THEN substring(p1, 0, Len(p1) - 2)
        ELSE p1

\* Array.prototype.join(' ') of a list of strings
RECURSIVE join(_)
join(list) ==
    IF list = <<>> THEN <<>>
    ELSE IF Len(list) = 1 THEN list[1].s
    ELSE list[1].s \o <<" ">> \o join(Tail(list))

\* msgParams.slice(0, n - 1).concat(msgParams.slice(n - 1).join(' '))
prepare(msgParams, n) ==
    LET k == Min(Len(msgParams), n - 1)
    IN  SubSeq(msgParams, 1, k)
            \o <<Str(join(SubSeq(msgParams, k + 1, Len(msgParams))))>>

\* parseInt(text, 10) over the digits of the model
parseInt(v) ==
    IF v.t = "number" THEN v.n
    ELSE IF v.t = "string" /\ v.s # <<>> /\ v.s[1] = "7" THEN 7
    ELSE NaN

\* the names mapManager.getByName resolves, the names
\* itemManager.getTemplateByName finds and the ids itemManager.getTemplate finds
GameMapNames == {<<"m">>}
ItemNames == {<<"v">>}
ItemTemplateIds == {<<"7">>}

\* what evaluating one rule on a slot does
\*   "ok"          the rule passed (value is the coerced value)
\*   "reject"      return reject(...): the executor stops
\*   "rejectAsync" reject(...) called in the .catch of the awaited lookup: the
\*                 await yields undefined and the executor goes on
\*   "throw"       the rule's code throws
RuleResult(res, value, lookups) == [res |-> res, value |-> value, lookups |-> lookups]

\* case 'gamemap' (and, with their own managers, 'faction' and 'shop')
gamemapRule(msgParam) ==
    IF msgParam.t = "string" /\ msgParam.s \in GameMapNames
    THEN RuleResult("ok", Obj("gamemap", msgParam.s), 1)
    ELSE RuleResult("rejectAsync", UndefinedValue, 1)

\* case 'item' with no modifier
itemRule(msgParam) ==
    IF msgParam.t # "string" THEN RuleResult("throw", msgParam, 0)
    ELSE IF toLowerCase(msgParam.s) \in ItemNames
         THEN RuleResult("ok", Obj("item", toLowerCase(msgParam.s)), 1)
    ELSE IF msgParam.s \in ItemTemplateIds
         THEN RuleResult("ok", Obj("item", msgParam.s), 2)
    ELSE RuleResult("reject", UndefinedValue, 2)

ruleEvalAlwaysPasses(rule, msgParam) == RuleResult("ok", msgParam, 0)

\* the switch on rule[0]
ruleEval(rule, msgParam) ==
    CASE rule = "required" ->
            IF msgParam.t = "undefined" THEN RuleResult("reject", msgParam, 0)
            ELSE RuleResult("ok", msgParam, 0)
      [] rule = "integer" ->
            IF parseInt(msgParam) = NaN THEN RuleResult("reject", Num(NaN), 0)
            ELSE RuleResult("ok", Num(parseInt(msgParam)), 0)
      [] rule = "gamemap" -> gamemapRule(msgParam)
      [] rule = "item" -> itemRule(msgParam)
      [] OTHER -> RuleResult("ok", msgParam, 0)

\* one declared parameter of a command: param.rules split on '|'
Slot(rules) == [rules |-> rules]

\* the promise validate returns and what its executor did: the outcome
\* ("pending" at the end = never settled), the parameter array, the rules
\* evaluated in order (with the lookups each issued and whether it failed) and
\* the slots unquoted
ValState(params) ==
    [outcome |-> "pending", params |-> params, log |-> <<>>, stripped |-> {},
     threw |-> FALSE]

\* resolve / reject: only the first call settles the promise
settle(st, outcome) ==
    IF st.outcome = "pending" THEN [st EXCEPT !.outcome = outcome] ELSE st

LogEntry(index, rule, r) ==
    [slot |-> index, rule |-> rule, lookups |-> r.lookups, failed |-> r.res # "ok"]

\* the loop over the slots (rule = 0: entering slot index) and over the rules
\* of a slot
RECURSIVE validateFrom(_, _, _, _)
validateFrom(st, cmdParams, index, rule) ==
    IF index > Len(cmdParams) THEN settle(st, "resolved")
    ELSE IF rule = 0
    THEN IF index > Len(st.params)
         THEN [st EXCEPT !.threw = TRUE]
         ELSE LET st1 == [st EXCEPT
                             !.params[index] = Str(stripEncapsulation(@.s)),
                             !.stripped = @ \cup {index}]
                  rules == cmdParams[index].rules
              IN  IF rules = <<>> THEN validateFrom(st1, cmdParams, index + 1, 0)
                  ELSE IF falsy(st1.params[index]) /\ "required" \notin Range(rules)
                       THEN settle(st1, "resolved")
                  ELSE validateFrom(st1, cmdParams, index, 1)
    ELSE IF rule > Len(cmdParams[index].rules)
    THEN validateFrom(st, cmdParams, index + 1, 0)
    ELSE LET name == cmdParams[index].rules[rule]
             r == ruleEval(name, st.params[index])
             logged == [st EXCEPT !.log = Append(@, LogEntry(index, name, r))]
         IN  CASE r.res = "ok" ->
                    validateFrom([logged EXCEPT !.params[index] = r.value],
                                 cmdParams, index, rule + 1)
               [] r.res = "reject" -> settle(logged, "rejected")
               [] r.res = "rejectAsync" ->
                    validateFrom([settle(logged, "rejected") EXCEPT
                                      !.params[index] = r.value],
                                 cmdParams, index, rule + 1)
               [] OTHER -> [logged EXCEPT !.threw = TRUE]

\* CommandManager.validate(player, msgParams, cmdParams); hasParams = FALSE is
\* a command object without a params property
validate(player, msgParams, hasParams, cmdParams) ==
    IF ~hasParams THEN settle(ValState(msgParams), "resolved")
    ELSE validateFrom(ValState(prepare(msgParams, Len(cmdParams))), cmdParams, 1, 0)

\* ------------------------------------------------------- sessions
\* the largest member of a set of naturals
SetMax(S) == CHOOSE m \in S : \A x \in S : x <= m

\* a character object of the registry: new Character(...) of a user
CharacterObj(obj, uid) == [obj |-> obj, user_id |-> uid]
\* the character objects something still refers to: the registry, a pending
\* manage, or the target / targetedBy of such an object
Reachable ==
    LET held == {c.obj : c \in Range(characters) \cup managing}
    IN  held \cup {target[c] : c \in held} \cup UNION {Range(targetedBy[c]) : c \in held}
NewObj == 1 + SetMax({0} \cup Reachable)

\* a timeout handle not in use
NewTimer == 1 + SetMax({0} \cup {timers[u] : u \in Accounts} \cup {t.handle : t \in timeouts})

\* the users with a character in the registry
Online(chars) == {c.user_id : c \in Range(chars)}

\* CharacterManager.remove(user_id): this.characters.filter(...)
remove(chars, uid) == SelectSeq(chars, LAMBDA obj : obj.user_id # uid)

\* SocketManager.clearTimer(user_id)
clearTimer(tm, to, uid) ==
    [wasLoggedIn |-> tm[uid] # 0,
     timers |-> [tm EXCEPT ![uid] = 0],
     timeouts |-> {t \in to : t.handle # tm[uid]}]

\* a login (or creation) of user uid over connection s: the connection gets
\* its user, and CharacterManager.load / create builds a character object and
\* calls manage, which runs up to its awaited loads
Manage(s, uid) ==
    LET cleared == clearTimer(timers, timeouts, uid)
        existingCharacter == uid \in Online(characters)
        existing == IF existingCharacter
                    THEN characters[CHOOSE k \in 1..Len(characters) :
                            /\ characters[k].user_id = uid
                            /\ \A j \in 1..(k - 1) : characters[j].user_id # uid].obj
                    ELSE NoChar
    IN  /\ sockets[s] = 0
        /\ NewObj <= MaxLogins
        /\ sockets' = [sockets EXCEPT ![s] = uid]
        /\ timers' = cleared.timers
        /\ timeouts' = cleared.timeouts
        /\ user_id' = [user_id EXCEPT ![NewObj] = uid]
        /\ target' = [target EXCEPT ![NewObj] = NoChar]
        /\ targetedBy' = [targetedBy EXCEPT ![NewObj] =
                             IF cleared.wasLoggedIn /\ existingCharacter
                             THEN gridLockAll(<<>>, targetedBy[existing])
                             ELSE <<>>]
        /\ characters' = IF cleared.wasLoggedIn /\ existingCharacter
                         THEN remove(characters, uid)
                         ELSE characters
        /\ managing' = managing \cup {CharacterObj(NewObj, uid)}
        /\ ret' = [op |-> "manage", uid |-> uid, socket |-> s]
        /\ UNCHANGED <<redis, commands, sinceMove, stats, itemVars, placeVars, queue>>

\* manage after its awaited loads: this.characters.push(character)
ManageAdd(character) ==
    /\ character \in managing
    /\ characters' = Append(characters, character)
    /\ managing' = managing \ {character}
    /\ ret' = [op |-> "manageAdd", uid |-> character.user_id, socket |-> 0]
    /\ UNCHANGED <<sockets, timers, timeouts>>
    /\ UNCHANGED <<redis, user_id, commands, sinceMove, targetVars, stats, itemVars, placeVars, queue>>

\* SocketManager.onDisconnect(user) with forced = false: a timeout is set and
\* stored under the user id, whatever was stored there before
onDisconnect(uid) ==
    /\ NewTimer <= MaxTimers
    /\ timers' = [timers EXCEPT ![uid] = NewTimer]
    /\ timeouts' = timeouts \cup {[handle |-> NewTimer, user_id |-> uid]}

\* the 'disconnect' event of connection s
OnDisconnect(s) ==
    /\ sockets[s] # 0
    /\ onDisconnect(sockets[s])
    /\ sockets' = [sockets EXCEPT ![s] = 0]
    /\ ret' = [op |-> "disconnect", uid |-> sockets[s], socket |-> s]
    /\ UNCHANGED <<characters, managing>>
    /\ UNCHANGED <<redis, user_id, commands, sinceMove, targetVars, stats, itemVars, placeVars, queue>>

\* the 'logout' event of connection s: onDisconnect, then socket.user = null
OnLogout(s) ==
    /\ sockets[s] # 0
    /\ onDisconnect(sockets[s])
    /\ sockets' = [sockets EXCEPT ![s] = 0]
    /\ ret' = [op |-> "logout", uid |-> sockets[s], socket |-> s]
    /\ UNCHANGED <<characters, managing>>
    /\ UNCHANGED <<redis, user_id, commands, sinceMove, targetVars, stats, itemVars, placeVars, queue>>

\* a timeout fires: emit('disconnect', user), on which the character manager
\* removes the user's character; this.timers keeps the handle
TimerFires(t) ==
    /\ t \in timeouts
    /\ timeouts' = timeouts \ {t}
    /\ characters' = remove(characters, t.user_id)
    /\ ret' = [op |-> "timer", uid |-> t.user_id, socket |-> 0]
    /\ UNCHANGED <<managing, sockets, timers>>
    /\ UNCHANGED <<redis, user_id, commands, sinceMove, targetVars, stats, itemVars, placeVars, queue>>

\* ------------------------------------------------------- saving, shutdown
\* the state of one saveAll call: its closure variables total and saves, the
\* saves whose storage calls are still running, whether its promise has
\* resolved, and how often the callback of its caller has run
SaveRet(op, res, total, saves, running, resolved, callbacks) ==
    [op |-> op, res |-> res, total |-> total, saves |-> saves,
     running |-> running, resolved |-> resolved, callbacks |-> callbacks]

\* no saveAll has a storage call running
Idle == IF ret.op = "saveAll" THEN ret.running = 0 ELSE TRUE

\* CharacterManager.saveAll(): save(user_id) for every character of the
\* registry; get() finds each of them, and their storage calls start
saveAll(caller) ==
    SaveRet("saveAll", caller, Len(characters), 0, Len(characters), FALSE, 0)

\* the 'autosave' timer of the game: saveAll(), its promise dropped
Autosave ==
    /\ Idle
    /\ ret' = saveAll("autosave")
    /\ UNCHANGED <<sessionVars, redis, user_id, commands, sinceMove, targetVars, stats, itemVars, placeVars, queue>>

\* the storage calls of one save end (Promise.all). Stored: save resolves,
\* saveAll counts it and resolves when saves === total, and a caller awaiting
\* it runs its callback. Failed: the .catch of save logs the error, the
\* promise of save stays pending and saveAll counts nothing.
SaveSettles(ok) ==
    /\ ret.op = "saveAll"
    /\ ret.running > 0
    /\ LET saves == IF ok THEN ret.saves + 1 ELSE ret.saves
           resolves == ok /\ ~ret.resolved /\ saves = ret.total
       IN  ret' = [ret EXCEPT !.running = @ - 1,
                              !.saves = saves,
                              !.resolved = @ \/ resolves,
                              !.callbacks = IF resolves /\ ret.res = "shutdown"
                                            THEN @ + 1 ELSE @]
    /\ UNCHANGED <<sessionVars, redis, user_id, commands, sinceMove, targetVars, stats, itemVars, placeVars, queue>>

\* the property Game of the Game object, which its constructor never sets
GameOfGame == Undefined

\* Game.shutdown(callback): this.Game.logger is read first; on an undefined
\* this.Game the async function rejects with a TypeError before saveAll is
\* called, and callback is not run
Shutdown ==
    /\ Idle
    /\ ret.op # "shutdown"
    /\ ret' = IF GameOfGame = Undefined
              THEN SaveRet("shutdown", "TypeError", 0, 0, 0, FALSE, 0)
              ELSE saveAll("shutdown")
    /\ UNCHANGED <<sessionVars, redis, user_id, commands, sinceMove, targetVars, stats, itemVars, placeVars, queue>>

\* ------------------------------------------------------ targets by name
\* a player and an NPC as findAtLocation reads them (a player has no type)
Player(name_lowercase, isHidden) ==
    [id |-> 0, name |-> name_lowercase, type |-> <<>>, hidden |-> isHidden]
Npc(id, name, type) == [id |-> id, name |-> name, type |-> type, hidden |-> FALSE]

\* `${npc.name} the ${npc.type}`.toLowerCase()
npcFullName(npc) == toLowerCase(npc.name \o <<" ", "t", "h", "e", " ">> \o npc.type)

\* what findAtLocation returns: a target, one of its two messages, or the
\* exception it throws
Found(kind, found) == [kind |-> kind, target |-> found]
NoTarget == Player(<<>>, FALSE)

\* matchingTargets.find(...): the first player whose name equals findName;
\* the callback of an NPC reads the undeclared variable npc and throws
RECURSIVE findExact(_, _)
findExact(matchingTargets, findName) ==
    IF matchingTargets = <<>> THEN Found("ambiguous", NoTarget)
    ELSE LET user == Head(matchingTargets)
         IN  IF user.type = <<>>
             THEN IF user.name = findName THEN Found("target", user)
                  ELSE findExact(Tail(matchingTargets), findName)
             ELSE Found("throw", NoTarget)

\* CommandManager.findAtLocation(findName, location, ignoreNPCs, ignorePlayers),
\* given the players and the NPCs getLocationList returns for the location
findAtLocation(findName, playersAtGrid, NPCsAtGrid, ignoreNPCs, ignorePlayers) ==
    LET exact == SelectSeq(playersAtGrid,
                           LAMBDA user : user.name = findName /\ ~user.hidden)
        prefix == SelectSeq(playersAtGrid,
                            LAMBDA user : StartsWith(user.name, findName) /\ ~user.hidden)
        matched == IF ignorePlayers THEN <<>>
                      ELSE IF exact # <<>> THEN exact ELSE prefix
        NPCs == IF ignoreNPCs THEN <<>>
                ELSE SelectSeq(NPCsAtGrid,
                               LAMBDA npc : StartsWith(npcFullName(npc), findName))
        matchingTargets == matched \o NPCs
    IN  IF matched = <<>> /\ NPCs = <<>> THEN Found("notfound", NoTarget)
        ELSE IF Len(matchingTargets) > 1 THEN findExact(matchingTargets, findName)
        ELSE Found("target", matchingTargets[1])

\* the player/target/npc rule of validate calling findAtLocation
FindAtLocation(findName, playersAtGrid, NPCsAtGrid, ignoreNPCs, ignorePlayers) ==
    /\ ret.op # "findAtLocation"
    /\ ret' = [op |-> "findAtLocation", findName |-> findName,
               players |-> playersAtGrid, npcs |-> NPCsAtGrid,
               ignoreNPCs |-> ignoreNPCs, ignorePlayers |-> ignorePlayers,
               res |-> findAtLocation(findName, playersAtGrid, NPCsAtGrid,
                                      ignoreNPCs, ignorePlayers)]
    /\ UNCHANGED <<sessionVars, redis, user_id, commands, sinceMove, targetVars, stats, itemVars, placeVars, queue>>

\* ---------------------------------------------------------- command router
\* the definitions (command objects) the managers register: the first declares
\* no params, the second one param with the rules 'required|integer'
Defs == {1, 2}
CommandDef(d) ==
    [def |-> d, hasParams |-> d # 1,
     params |-> IF d = 1 THEN <<>> ELSE <<Slot(<<"required", "integer">>)>>,
     method |-> TRUE, isAlias |-> FALSE, truthy |-> TRUE]

\* Object.prototype, which this.commands = {} inherits from: the lower-case
\* property names a lookup finds without any registration
ObjectPrototype == {<<"constructor">>, <<"__proto__">>}

\* what such a property holds: an object with no params and no method
Inherited ==
    [def |-> 0, hasParams |-> FALSE, params |-> <<>>, method |-> FALSE,
     isAlias |-> FALSE, truthy |-> TRUE]

\* the undefined a lookup of an unknown key yields
NoCommand == [Inherited EXCEPT !.truthy = FALSE]

\* this.commands[key]
lookup(cmds, key) ==
    IF key \in DOMAIN cmds THEN cmds[key]
    ELSE IF key \in ObjectPrototype THEN Inherited
    ELSE NoCommand

\* register: a name with no leading '/' gets one
commandKey(commandName) ==
    IF commandName = <<>> \/ commandName[1] # "/" THEN <<"/">> \o commandName
    ELSE commandName

registerOverwrite(cmds, commandName, commandObject, isAlias) ==
    [k \in DOMAIN cmds \cup {commandKey(commandName)} |->
        IF k = commandKey(commandName) THEN [commandObject EXCEPT !.isAlias = isAlias]
        ELSE cmds[k]]

\* CommandManager.register(commandName, commandObject, isAlias)
register(cmds, commandName, commandObject, isAlias) ==
    LET key == commandKey(commandName)
    IN  IF lookup(cmds, key).truthy
        THEN cmds
        ELSE [k \in DOMAIN cmds \cup {key} |->
                 IF k = key THEN [commandObject EXCEPT !.isAlias = isAlias]
                 ELSE cmds[k]]

\* the aliases of one command object, registered in order as copies of it
RECURSIVE registerAliases(_, _, _)
registerAliases(cmds, obj, aliases) ==
    IF aliases = <<>> THEN cmds
    ELSE registerAliases(register(cmds, Head(aliases), CommandDef(obj.def), TRUE),
                         obj, Tail(aliases))

\* CommandManager.registerManager(commandsList)
RECURSIVE registerManager(_, _)
registerManager(cmds, commandsList) ==
    IF commandsList = <<>> THEN cmds
    ELSE LET obj == Head(commandsList)
         IN  registerManager(
                 registerAliases(register(cmds, obj.command, CommandDef(obj.def), FALSE),
                                 obj, obj.aliases),
                 Tail(commandsList))

\* what a call of the router did: the arguments, the events it emitted, and
\* whether validate and the handler were invoked
RouterRet(op, uid, character, name, arg, events, validated, invoked) ==
    [op |-> op, uid |-> uid, self |-> character, name |-> name, arg |-> arg,
     res |-> "undefined", events |-> events, validated |-> validated,
     invoked |-> invoked]

\* a manager's direct call of register
Register(commandName, d, isAlias) ==
    /\ commands' = register(commands, commandName, CommandDef(d), isAlias)
    /\ ret' = RouterRet("register", 0, NoChar, commandName,
                        [def |-> d, isAlias |-> isAlias], <<>>, FALSE, FALSE)
    /\ UNCHANGED <<sessionVars, redis, user_id, sinceMove, targetVars, stats, itemVars, placeVars, queue>>

\* a manager registers its list of commands
RegisterManager(commandsList) ==
    /\ commands' = registerManager(commands, commandsList)
    /\ ret' = RouterRet("registerManager", 0, NoChar, <<>>, commandsList, <<>>, FALSE, FALSE)
    /\ UNCHANGED <<sessionVars, redis, user_id, sinceMove, targetVars, stats, itemVars, placeVars, queue>>

\* CharacterManager.getSync(user_id); NoChar = null
getSync(uid) ==
    IF uid = 0 THEN NoChar
    ELSE IF \E c \in Chars : user_id[c] = uid
         THEN CHOOSE c \in Chars : user_id[c] = uid
         ELSE NoChar

\* a pending callback of onDispatch: the socket (its user), the character
\* found for it, the command token, the parameters typed and the array
\* validate resolved with
DispatchJob(k, uid, character, command, msgParams, validParams, hops) ==
    [k |-> k, self |-> character, a |-> 0, b |-> 0, s |-> "", hops |-> hops,
     loc |-> NoLoc, dir |-> 0, cd |-> 0, stale |-> FALSE,
     uid |-> uid, command |-> command, msgParams |-> msgParams,
     validParams |-> validParams]

\* CommandManager.onDispatch(socket, action) for a GAME_COMMAND whose payload
\* starts with token and carries the parameters msgParams
Dispatch(uid, token, msgParams) ==
    LET command == toLowerCase(token)
        character == getSync(uid)
        cmd == lookup(commands, command)
        v == validate(character, msgParams, cmd.hasParams, cmd.params)
    IN  /\ Len(queue) < MaxQueue
        /\ IF ~cmd.truthy
           THEN /\ ret' = RouterRet("dispatch", uid, NoChar, token, msgParams,
                                    <<ToSocket(uid, "error")>>, FALSE, FALSE)
                /\ UNCHANGED queue
           ELSE /\ ret' = RouterRet("dispatch", uid, character, token, msgParams,
                                    <<>>, TRUE, FALSE)
                /\ queue' =
                        CASE v.outcome = "resolved" ->
                                Append(queue, DispatchJob("dispatchThen", uid, character,
                                                          command, msgParams, v.params, 1))
                          [] v.outcome = "rejected" ->
                                Append(queue, DispatchJob("dispatchCatch", uid, character,
                                                          command, msgParams, v.params, 2))
                          [] OTHER -> queue
        /\ UNCHANGED <<sessionVars, redis, user_id, commands, sinceMove, targetVars, stats, itemVars, placeVars>>

\* onDispatch, the callback of validate: the command's method is called with
\* the validated parameters; a command object without a method throws, which
\* the .catch behind receives
DispatchThen ==
    /\ queue # <<>>
    /\ Head(queue).k = "dispatchThen"
    /\ Head(queue).hops = 1
    /\ LET j == Head(queue)
       IN  IF lookup(commands, j.command).method
           THEN /\ queue' = Tail(queue)
                /\ ret' = RouterRet("handler", j.uid, j.self, j.command, j.validParams,
                                    <<>>, FALSE, TRUE)
           ELSE /\ queue' = Append(Tail(queue), [j EXCEPT !.k = "dispatchCatch"])
                /\ ret' = RouterRet("dispatchThen", j.uid, j.self, j.command, <<>>,
                                    <<>>, FALSE, FALSE)
    /\ UNCHANGED <<sessionVars, redis, user_id, commands, sinceMove, targetVars, stats, itemVars, placeVars>>

\* onDispatch, the .catch: the error goes to the dispatching socket
DispatchCatch ==
    /\ queue # <<>>
    /\ Head(queue).k = "dispatchCatch"
    /\ Head(queue).hops = 1
    /\ LET j == Head(queue)
       IN  ret' = RouterRet("dispatchCatch", j.uid, j.self, j.command, <<>>,
                           <<ToSocket(j.uid, "error")>>, FALSE, FALSE)
    /\ queue' = Tail(queue)
    /\ UNCHANGED <<sessionVars, redis, user_id, commands, sinceMove, targetVars, stats, itemVars, placeVars>>

\* validate called on its own, with the parameters typed and the declared slots
Validate(msgParams, cmdParams) ==
    /\ ret.op # "validate"
    /\ ret' = [op |-> "validate", msgParams |-> msgParams, cmdParams |-> cmdParams,
               res |-> validate(NoChar, msgParams, TRUE, cmdParams)]
    /\ UNCHANGED <<sessionVars, redis, user_id, commands, sinceMove, targetVars, stats, itemVars, placeVars, queue>>

\* ------------------------------------------------------ client dispatches
\* an action object: its type ("" = none), and for a game command the token
\* and parameters of its payload, for an authentication the account
Action(type, token, msgParams, uid) ==
    [type |-> type, token |-> token, msgParams |-> msgParams, uid |-> uid]

\* a gate that lets every typed action through
ignoresUntyped(user, action) == action.type = ""

\* onClientDispatch returns before this.emit('dispatch', socket, action)
ignores(user, action) ==
    IF action.type = "" THEN TRUE
    ELSE IF user = 0 /\ action.type # "ACCOUNT_AUTHENTICATE" THEN TRUE
    ELSE FALSE

\* SocketManager.onClientDispatch(socket, action) and the listeners of the
\* 'dispatch' it emits: the command manager reacts to GAME_COMMAND, the
\* account manager to ACCOUNT_AUTHENTICATE (a login, which sets socket.user
\* and has the character managed), nobody to the rest
OnClientDispatch(s, action) ==
    IF ignores(sockets[s], action)
    THEN /\ ret' = [op |-> "onClientDispatch", socket |-> s, type |-> action.type,
                    emitted |-> FALSE]
         /\ UNCHANGED <<sessionVars, redis, user_id, commands, sinceMove, targetVars, stats, itemVars, placeVars, queue>>
    ELSE CASE action.type = "GAME_COMMAND" ->
                Dispatch(sockets[s], action.token, action.msgParams)
           [] action.type = "ACCOUNT_AUTHENTICATE" /\ sockets[s] = 0 ->
                Manage(s, action.uid)
           [] OTHER ->
                /\ ret' = [op |-> "onClientDispatch", socket |-> s,
                           type |-> action.type, emitted |-> TRUE]
                /\ UNCHANGED <<sessionVars, redis, user_id, commands, sinceMove, targetVars, stats, itemVars, placeVars, queue>>

\* -------------------------------------------------------- grid player lists
\* map/commands.js keeps, in redis, the position of every user and, for every
\* cell, the list of the users standing on it. Every redis command is answered
\* through a callback; the commands of the one connection are executed, and
\* their callbacks run, in the order they were sent, so a pending command is a
\* job of the queue: running the job executes the command against the store
\* and then runs its callback, which may send the next command.

\* the users who walk the map
GridUsers == {1, 2}
\* the cells of the map
Cells == {[map |-> Spawn.map, x |-> cx, y |-> cy] :
              cx \in 0..(GridSize - 1), cy \in 0..(GridSize - 1)}
\* the store before anybody moved: every user stands at the spawn cell
RedisInit ==
    [position |-> [u \in GridUsers |-> Spawn],
     grid     |-> [c \in Cells |-> IF c = Spawn THEN GridUsers ELSE {}]]

\* A redis command awaiting its reply, with what its callback closes over:
\* the user, the direction argument (grid, direction), oldPosition,
\* newPosition, the action of gridUpdatePlayerlist and the list to store
RedisJob(k, u, grid, direction, old, new, action, list) ==
    [k |-> k, self |-> u, a |-> 0, b |-> 0, s |-> action, hops |-> 1,
     loc |-> new, dir |-> direction, cd |-> 0, stale |-> FALSE,
     grid |-> grid, old |-> old, list |-> list]

\* what setPlayerPosition did last: the arguments handed to its callback
GridRet(op, u, old, new, list) ==
    [op |-> op, self |-> u, arg |-> 0, res |-> "", old |-> old, new |-> new,
     playerlist |-> list]

\* getMapPosition(mapName, x, y): the cell, or null (NoLoc) off the grid
getMapPosition(mapName, x, y) ==
    IF isValidPostion(x, y) THEN [map |-> mapName, x |-> x, y |-> y] ELSE NoLoc

\* the callback argument of getPlayerPosition for a stored value: the spawn
\* cell when nothing usable is stored or the map is unknown, the cell itself
\* when it lies on the map, the spawn of its map otherwise
getPlayerPosition(position) ==
    IF position = NoLoc \/ position.map # Spawn.map
    THEN getMapPosition(Spawn.map, Spawn.x, Spawn.y)
    ELSE IF getMapPosition(position.map, position.x, position.y) # NoLoc
         THEN getMapPosition(position.map, position.x, position.y)
         ELSE getMapPosition(position.map, Spawn.x, Spawn.y)

\* the switch of gridUpdatePlayerlist applied to a list just read
updatedPlayerlist(playerlist, u, action) ==
    CASE action = "add"    -> playerlist \cup {u}
      [] action = "remove" -> playerlist \ {u}
      [] OTHER             -> playerlist

\* the cell a gridUpdatePlayerlist of setPlayerPosition works on
cellOf(j) == IF j.s = "remove" THEN j.old ELSE j.loc

\* exports.setPlayerPosition(user, direction, callback), up to its first
\* redis command
SetPlayerPosition(u, grid, direction) ==
    /\ IF grid = ""
       THEN UNCHANGED queue
       ELSE queue' = Append(queue, RedisJob("getPlayerPosition", u, grid,
                                            direction, NoLoc, NoLoc, "", {}))
    /\ ret' = GridRet("setPlayerPosition", u, NoLoc, NoLoc, {})
    /\ UNCHANGED <<sessionVars, redis, user_id, commands, sinceMove, targetVars, stats, itemVars, placeVars>>

\* the reply to redis.get(`position_${userId}`) and the callback
\* setPlayerPosition hands to getPlayerPosition
GetPlayerPositionReply ==
    /\ queue # <<>>
    /\ Head(queue).k = "getPlayerPosition"
    /\ LET j == Head(queue)
           oldPosition == getPlayerPosition(redis.position[j.self])
           currentPosition == Step(oldPosition, j.grid, j.dir)
           newPosition == getMapPosition(oldPosition.map, currentPosition.x,
                                         currentPosition.y)
       IN  IF newPosition = NoLoc
           THEN /\ queue' = Tail(queue)
                /\ ret' = GridRet("outOfBounds", j.self, oldPosition, NoLoc, {})
           ELSE /\ queue' = Append(Tail(queue),
                                   RedisJob("setPosition", j.self, j.grid, j.dir,
                                            oldPosition, newPosition, "", {}))
                /\ UNCHANGED ret
    /\ UNCHANGED <<sessionVars, redis, user_id, commands, sinceMove, targetVars, stats, itemVars, placeVars>>

\* redis.set(`position_${user.userId}`, ...) and its callback, which starts
\* gridUpdatePlayerlist(oldPosition, user, 'remove', ...)
SetPositionReply ==
    /\ queue # <<>>
    /\ Head(queue).k = "setPosition"
    /\ LET j == Head(queue)
       IN  /\ redis' = [redis EXCEPT !.position[j.self] = j.loc]
           /\ queue' = Append(Tail(queue),
                              RedisJob("gridGet", j.self, j.grid, j.dir, j.old,
                                       j.loc, "remove", {}))
    /\ UNCHANGED <<sessionVars, ret, user_id, commands, sinceMove, targetVars, stats, itemVars, placeVars>>

\* the reply to the redis.get of gridGetPlayerlist and the callback of
\* gridUpdatePlayerlist: change the list just read and send it back
GridGetReply ==
    /\ queue # <<>>
    /\ Head(queue).k = "gridGet"
    /\ LET j == Head(queue)
           playerlist == redis.grid[cellOf(j)]
       IN  queue' = Append(Tail(queue),
                           RedisJob("gridSet", j.self, j.grid, j.dir, j.old, j.loc,
                                    j.s, updatedPlayerlist(playerlist, j.self, j.s)))
    /\ UNCHANGED <<sessionVars, redis, ret, user_id, commands, sinceMove, targetVars, stats, itemVars, placeVars>>

\* the redis.set of gridUpdatePlayerlist and its callback: after the
\* 'remove', gridUpdatePlayerlist(newPosition, user, 'add', ...); after the
\* 'add', callback(oldPosition, newPosition, playerlist)
GridSetReply ==
    /\ queue # <<>>
    /\ Head(queue).k = "gridSet"
    /\ LET j == Head(queue)
       IN  /\ redis' = [redis EXCEPT !.grid[cellOf(j)] = j.list]
           /\ IF j.s = "remove"
              THEN /\ queue' = Append(Tail(queue),
                                      RedisJob("gridGet", j.self, j.grid, j.dir,
                                               j.old, j.loc, "add", {}))
                   /\ UNCHANGED ret
              ELSE /\ queue' = Tail(queue)
                   /\ ret' = GridRet("moved", j.self, j.old, j.loc, j.list)
    /\ UNCHANGED <<sessionVars, user_id, commands, sinceMove, targetVars, stats, itemVars, placeVars>>

\* ----------------------------------------------------------- specifications
\* A character as the constructor leaves it, with stats as loaded from its record
NewStats == [health |-> MaxStat, health_max |-> MaxStat, money |-> 0, bank |-> 0,
             exp |-> 0, inventorySize |-> InvSize]

Init ==
    /\ user_id = [c \in Chars |-> c]
    /\ target = [c \in Chars |-> NoChar]
    /\ targetedBy = [c \in Chars |-> <<>>]
    /\ stats = [c \in Chars |-> NewStats]
    /\ inventory = [c \in Chars |-> <<>>]
    /\ item = [i \in ItemIds |-> FreeRec]
    /\ location = [c \in Chars |-> Spawn]
    /\ hidden = [c \in Chars |-> FALSE]
    /\ cooldowns = [c \in Chars |-> <<>>]
    /\ queue = <<>>
    /\ ret = NoRet
    /\ commands = NoCommands
    /\ sinceMove = [c \in Chars |-> MoveTicks]
    /\ characters = <<>>
    /\ managing = {}
    /\ sockets = [s \in Sockets |-> 0]
    /\ timers = [u \in Accounts |-> 0]
    /\ timeouts = {}
    /\ redis = RedisInit

\* setTarget / releaseTarget, every call run to completion (continuation
\* included) before the next one starts
NextAimSeq ==
    \/ \E c \in Chars, t \in Chars : queue = <<>> /\ SetTarget(c, t)
    \/ \E c \in Chars : queue = <<>> /\ ReleaseTarget(c)
    \/ SetTargetThen

SpecAimSeq == Init /\ [][NextAimSeq]_vars

\* setTarget / releaseTarget, calls issued while continuations are pending
NextAim ==
    \/ \E c \in Aimers, t \in Chars : SetTarget(c, t)
    \/ \E c \in Aimers : ReleaseTarget(c)
    \/ SetTargetThen

SpecAim == Init /\ [][NextAim]_vars

ArmorIds == {"vest", "coat"}

\* the arguments the inventory operations are tried with
Amounts == 0..MaxAmount
Slots == {"armor", "ammo", ""}
IndexSelectors == {ByIndex(n) : n \in -1..MaxItems}
NameSelectors == {ByName(<<"v">>), ByName(<<"a">>)}

\* one character's inventory: give, equip, unEquip and drop, every call run to
\* completion (continuation included) before the next one starts
NextInvSeq ==
    \/ \E id \in {"vest", "ammo", "junk"}, n \in Amounts : queue = <<>> /\ GiveItem(1, id, n)
    \/ \E idx \in 1..MaxItems : queue = <<>> /\ Equip(1, idx)
    \/ \E slot \in Slots : queue = <<>> /\ UnEquip(1, slot)
    \/ \E sel \in IndexSelectors, f \in BOOLEAN : queue = <<>> /\ DropItem(1, sel, 1, f)
    \/ \E sel \in NameSelectors, n \in 1..MaxAmount, f \in BOOLEAN :
          queue = <<>> /\ DropItem(1, sel, n, f)
    \/ EquipThen
    \/ EquipCatch
    \/ UnEquipThen
    \/ Pass

SpecInvSeq == Init /\ [][NextInvSeq]_vars

\* one character is given items and drops them by index; a stackable item is
\* also given and dropped again at once
NextGive ==
    \/ \E id \in {"vest", "ammo", "junk"}, n \in Amounts : GiveItem(1, id, n)
    \/ \E n \in 1..MaxAmount : GiveThenDrop(1, "ammo", n)
    \/ \E sel \in IndexSelectors, n \in 1..MaxAmount : DropItem(1, sel, n, FALSE)

SpecGive == Init /\ [][NextGive]_vars

\* one character's equipment: pieces of armor are given, equipped and
\* un-equipped, calls issued while continuations are pending
NextEquip ==
    \/ \E id \in ArmorIds : GiveItem(1, id, 0)
    \/ \E idx \in 1..MaxItems : Equip(1, idx)
    \/ \E slot \in Slots : UnEquip(1, slot)
    \/ EquipThen
    \/ EquipCatch
    \/ UnEquipThen
    \/ Pass

SpecEquip == Init /\ [][NextEquip]_vars

\* a character loaded from its record with a ranged weapon and a stack of
\* ammunition, each absent, carried or equipped
Carriage == {"none", "carried", "equipped"}

Loaded(id, durability, carriage, slot) ==
    IF carriage = "none" THEN FreeRec
    ELSE [ItemRec(id, durability) EXCEPT
             !.equipped_slot = IF carriage = "equipped" THEN slot ELSE ""]

InitArmed ==
    /\ user_id = [c \in Chars |-> c]
    /\ target = [c \in Chars |-> NoChar]
    /\ targetedBy = [c \in Chars |-> <<>>]
    /\ stats = [c \in Chars |-> NewStats]
    /\ \E gun \in Carriage, ammo \in Carriage, rounds \in 0..MaxStack :
          /\ inventory = [c \in Chars |->
                            IF c = 1
                            THEN (IF gun = "none" THEN <<>> ELSE <<1>>)
                                    \o (IF ammo = "none" THEN <<>> ELSE <<2>>)
                            ELSE <<>>]
          /\ item = [i \in ItemIds |->
                        CASE i = 1 -> Loaded("gun", 1, gun, "ranged")
                          [] i = 2 -> Loaded("ammo", rounds, ammo, "ammo")
                          [] OTHER -> FreeRec]
    /\ location = [c \in Chars |-> Spawn]
    /\ hidden = [c \in Chars |-> FALSE]
    /\ cooldowns = [c \in Chars |-> <<>>]
    /\ queue = <<>>
    /\ ret = NoRet
    /\ commands = NoCommands
    /\ sinceMove = [c \in Chars |-> MoveTicks]
    /\ characters = <<>>
    /\ managing = {}
    /\ sockets = [s \in Sockets |-> 0]
    /\ timers = [u \in Accounts |-> 0]
    /\ timeouts = {}
    /\ redis = RedisInit

\* the character fires again and again, each shot run to its outcome before
\* the next
NextFire ==
    \/ \E ignoreQuantity \in BOOLEAN :
          queue = <<>> /\ FireRangedWeapon(1, ignoreQuantity)
    \/ GetWeaponDamageThen
    \/ FireThen
    \/ FireAmmo
    \/ FireCatch
    \/ Pass

SpecFire == InitArmed /\ [][NextFire]_vars

\* characters loaded from their records: the first carries a vest and a
\* stack of ammunition and, possibly, cash
InitLoaded ==
    /\ user_id = [c \in Chars |-> c]
    /\ target = [c \in Chars |-> NoChar]
    /\ targetedBy = [c \in Chars |-> <<>>]
    /\ \E m \in {0, MaxStat - 1} :
          stats = [c \in Chars |-> IF c = 1 THEN [NewStats EXCEPT !.money = m]
                                   ELSE NewStats]
    /\ inventory = [c \in Chars |-> IF c = 1 THEN <<1, 2>> ELSE <<>>]
    /\ item = [i \in ItemIds |-> CASE i = 1 -> ItemRec("vest", 5)
                                   [] i = 2 -> ItemRec("ammo", MaxStack)
                                   [] OTHER -> FreeRec]
    /\ location = [c \in Chars |-> Spawn]
    /\ hidden = [c \in Chars |-> FALSE]
    /\ cooldowns = [c \in Chars |-> <<>>]
    /\ queue = <<>>
    /\ ret = NoRet
    /\ commands = NoCommands
    /\ sinceMove = [c \in Chars |-> MoveTicks]
    /\ characters = <<>>
    /\ managing = {}
    /\ sockets = [s \in Sockets |-> 0]
    /\ timers = [u \in Accounts |-> 0]
    /\ timeouts = {}
    /\ redis = RedisInit

\* the steps a move or flee command is made of
Grids == {"x", "y"}
Directions == {-1, 1}

\* the character operations that touch target / targetedBy, every call run
\* to completion (continuations included) before the next one starts
NextCharSeq ==
    \/ \E c \in Chars, t \in Chars : queue = <<>> /\ SetTarget(c, t)
    \/ \E c \in Chars : queue = <<>> /\ ReleaseTarget(c)
    \/ \E c \in Movers : queue = <<>> /\ Die(c)
    \/ \E c \in Movers, g \in Grids, d \in Directions : queue = <<>> /\ Flee(c, g, d)
    \/ \E c \in Movers : queue = <<>> /\ Flee(c, "", 0)
    \/ \E c \in Movers, g \in Grids, d \in Directions : queue = <<>> /\ Move(c, g, d)
    \/ \E c \in Movers : queue = <<>> /\ Tick(c)
    \/ SetTargetThen
    \/ DieThen
    \/ FleeGet
    \/ FleeMap
    \/ MoveGet
    \/ MoveValid
    \/ MoveInvalid
    \/ MoveDone
    \/ Pass

SpecCharSeq == Init /\ [][NextCharSeq]_vars

\* Moves of one character, one request at a time, while the characters aim at
\* each other and let go, the mover hides and comes out, time passes and the
\* reaper runs
NextMoveSeq ==
    \/ \E c \in Movers, g \in Grids, d \in Directions : queue = <<>> /\ Move(c, g, d)
    \/ \E c \in Aimers : \E t \in Aimers \ {c} : queue = <<>> /\ SetTarget(c, t)
    \/ \E c \in Aimers : queue = <<>> /\ ReleaseTarget(c)
    \/ \E c \in Movers, h \in BOOLEAN : queue = <<>> /\ SetHidden(c, h)
    \/ \E c \in Movers : queue = <<>> /\ Tick(c)
    \/ \E c \in Movers : queue = <<>> /\ Cleanup(c)
    \/ SetTargetThen
    \/ MoveGet
    \/ MoveValid
    \/ MoveInvalid
    \/ MoveDone
    \/ Pass

SpecMoveSeq == Init /\ [][NextMoveSeq]_vars

\* A move of one character while another takes aim at it and the mover hides:
\* the calls arrive while continuations are pending
NextMove ==
    \/ \E c \in Movers, g \in Grids, d \in Directions : Move(c, g, d)
    \/ \E c \in Aimers \ Movers : \E t \in Movers : SetTarget(c, t)
    \/ \E c \in Aimers \ Movers : ReleaseTarget(c)
    \/ \E c \in Movers, h \in BOOLEAN : SetHidden(c, h)
    \/ SetTargetThen
    \/ MoveGet
    \/ MoveValid
    \/ MoveInvalid
    \/ MoveDone
    \/ Pass

SpecMove == Init /\ [][NextMove]_vars

\* the names managers register and the first tokens clients send
CommandNames == {<<"a">>, <<"/", "a">>, <<"c">>}
Tokens == {<<"/", "a">>, <<"/", "C">>, <<"/", "v">>, <<"a">>, <<"constructor">>}

\* the command objects of a manager's list, and the lists: one or two objects
\* with at most one alias each
CommandObjects ==
    {[command |-> n, aliases |-> al, def |-> d] :
        n \in CommandNames, al \in {<<>>, <<<<"c">>>>}, d \in Defs}
CommandLists ==
    {<<o>> : o \in CommandObjects} \cup {<<o, p>> : o \in CommandObjects, p \in CommandObjects}

\* the users that dispatch: one with a character and one with none
Users == {1, NumChars + 1}

\* the parameters typed after a command
DispatchParams == {<<>>, <<Str(<<"7">>)>>, <<Str(<<"x">>)>>, <<Str(<<Quote, "7", Quote>>)>>}

\* The command router: managers register commands and aliases, connections
\* dispatch command text, one event at a time
NextCommand ==
    \/ \E n \in CommandNames, d \in Defs, al \in BOOLEAN : queue = <<>> /\ Register(n, d, al)
    \/ \E list \in CommandLists : queue = <<>> /\ RegisterManager(list)
    \/ \E uid \in Users, t \in Tokens, m \in DispatchParams :
            queue = <<>> /\ Dispatch(uid, t, m)
    \/ DispatchThen
    \/ DispatchCatch
    \/ Pass

SpecCommand == Init /\ [][NextCommand]_vars

\* logins, disconnects, logouts and timeouts of the users' connections, in
\* every order
NextSession ==
    \/ \E s \in Sockets, uid \in Accounts : Manage(s, uid)
    \/ \E character \in managing : ManageAdd(character)
    \/ \E s \in Sockets : OnDisconnect(s)
    \/ \E s \in Sockets : OnLogout(s)
    \/ \E t \in timeouts : TimerFires(t)
SpecSession == Init /\ [][NextSession]_vars

\* users log in, the autosave timer saves the registry, every save is stored
\* or fails, and the server is told to shut down once; nobody logs in while
\* a save runs or after the shutdown signal
NextShutdown ==
    \/ \E s \in Sockets, uid \in Accounts :
          Idle /\ ret.op # "shutdown" /\ Manage(s, uid)
    \/ \E character \in managing :
          Idle /\ ret.op # "shutdown" /\ ManageAdd(character)
    \/ ret.op # "shutdown" /\ Autosave
    \/ \E ok \in BOOLEAN : SaveSettles(ok)
    \/ Shutdown

SpecShutdown == Init /\ [][NextShutdown]_vars /\ WF_vars(NextShutdown)

\* a loaded character drops from its vest and its stack of ammunition, by
\* index and by name, amounts of either sign; ammunition is handed back
DropAmounts == (0 - MaxAmount)..MaxAmount
DropSelectors == {ByIndex(0), ByIndex(1), ByName(<<"a">>)}
NextDrop ==
    \/ \E sel \in DropSelectors, n \in DropAmounts :
          /\ DropItem(1, sel, n, FALSE)
          /\ \A i \in ItemIds : item'[i].durability <= MaxDurability
    \/ \E n \in 1..MaxAmount : GiveItem(1, "ammo", n)

SpecDrop == InitLoaded /\ [][NextDrop]_vars

\* connections send actions of every type, logged in or not; commands are
\* registered, users log out
ActionTypes == {"", "ACCOUNT_AUTHENTICATE", "GAME_COMMAND", "SHOP_BUY"}
Actions ==
    {Action("GAME_COMMAND", <<"/", "a">>, m, 0) : m \in {<<>>, <<Str(<<"7">>)>>}}
        \cup {Action("ACCOUNT_AUTHENTICATE", <<>>, <<>>, uid) : uid \in Accounts}
        \cup {Action(type, <<>>, <<>>, 0) : type \in {"", "SHOP_BUY"}}
NextSocket ==
    \/ \E d \in Defs : queue = <<>> /\ Register(<<"a">>, d, FALSE)
    \/ \E s \in Sockets, action \in Actions : queue = <<>> /\ OnClientDispatch(s, action)
    \/ \E character \in managing : ManageAdd(character)
    \/ \E s \in Sockets : OnLogout(s)
    \/ DispatchThen
    \/ DispatchCatch
    \/ Pass

SpecSocket == Init /\ [][NextSocket]_vars

\* users log in, aim at each other and release, disconnect, are evicted when
\* their timer fires or come back before it does; a setTarget completes
\* before the next event
Managed == {c.obj : c \in Range(characters)}
NextRegistry ==
    \/ \E s \in Sockets, uid \in Accounts : queue = <<>> /\ Manage(s, uid)
    \/ \E character \in managing : queue = <<>> /\ ManageAdd(character)
    \/ \E s \in Sockets : queue = <<>> /\ OnDisconnect(s)
    \/ \E t \in timeouts : queue = <<>> /\ TimerFires(t)
    \/ \E c \in Managed, t \in Managed : queue = <<>> /\ c # t /\ SetTarget(c, t)
    \/ SetTargetThen
    \/ \E c \in Managed : queue = <<>> /\ ReleaseTarget(c)

SpecRegistry == Init /\ [][NextRegistry]_vars

\* characters aim at each other, the first earns cash, and the first two are
\* killed, every call run to completion before the next one starts; the cash
\* in the game stays within MaxStat
RECURSIVE CashOf(_)
CashOf(S) ==
    IF S = {} THEN 0
    ELSE LET c == CHOOSE c \in S : TRUE IN stats[c].money + CashOf(S \ {c})
TotalCash == CashOf(Chars)
Victims == {1, 2}
NextKill ==
    \/ \E c \in Chars, t \in Chars : queue = <<>> /\ c # t /\ SetTarget(c, t)
    \/ queue = <<>> /\ TotalCash < MaxStat /\ UpdateCash(1, 1)
    \/ \E c \in Victims : queue = <<>> /\ Kill(c)
    \/ SetTargetThen
    \/ DieThen
    \/ KillThen

SpecKill == InitLoaded /\ [][NextKill]_vars

\* findAtLocation alone: up to MaxAtGrid players and as many NPCs stand at the
\* location, no two players with one name
SeqsUpTo(S, n) == UNION {[1..k -> S] : k \in 0..n}
MaxAtGrid == 2
PlayerNames == {<<"a">>, <<"a", "b">>, <<"a", "c">>}
FindNames == {<<"a">>, <<"a", "b">>, <<"a", " ", "t", "h", "e", " ", "t">>, <<"b">>}
NpcPool == {Npc(1, <<"A">>, <<"t">>), Npc(2, <<"a">>, <<"u">>), Npc(3, <<"b">>, <<"t">>)}
Injective(list) == \A i, k \in 1..Len(list) : list[i] = list[k] => i = k
PlayerLists ==
    {l \in SeqsUpTo({Player(n, h) : n \in PlayerNames, h \in BOOLEAN}, MaxAtGrid) :
        Injective([i \in 1..Len(l) |-> l[i].name])}
NpcLists == {l \in SeqsUpTo(NpcPool, MaxAtGrid) : Injective(l)}
NextFind ==
    \E findName \in FindNames, players \in PlayerLists, npcs \in NpcLists,
       ignoreNPCs \in BOOLEAN, ignorePlayers \in BOOLEAN :
        FindAtLocation(findName, players, npcs, ignoreNPCs, ignorePlayers)
SpecFind == Init /\ [][NextFind]_vars

\* validate alone, over every list of up to MaxParams typed parameters and
\* every declaration of up to MaxSlots slots
MaxParams == 2
MaxSlots == 2
ParamTexts == {<<>>, <<"7">>, <<"x">>, <<"m">>, <<Quote, Quote>>}
RuleLists == {<<>>, <<"required">>, <<"integer">>, <<"required", "integer">>,
              <<"gamemap">>, <<"gamemap", "integer">>, <<"item">>}
MsgParamLists == SeqsUpTo({Str(s) : s \in ParamTexts}, MaxParams)
CmdParamLists == SeqsUpTo({Slot(r) : r \in RuleLists}, MaxSlots) \ {<<>>}
NextValidate ==
    \E m \in MsgParamLists, p \in CmdParamLists : Validate(m, p)
SpecValidate == Init /\ [][NextValidate]_vars

\* a character loaded with some health and, possibly, a piece of armor that
\* is equipped
InitCombat ==
    /\ user_id = [c \in Chars |-> c]
    /\ target = [c \in Chars |-> NoChar]
    /\ targetedBy = [c \in Chars |-> <<>>]
    /\ \E h \in 0..MaxStat :
          stats = [c \in Chars |-> IF c = 1 THEN [NewStats EXCEPT !.health = h]
                                   ELSE NewStats]
    /\ \/ /\ inventory = [c \in Chars |-> <<>>]
          /\ item = [i \in ItemIds |-> FreeRec]
       \/ /\ inventory = [c \in Chars |-> IF c = 1 THEN <<1>> ELSE <<>>]
          /\ \E id \in ArmorIds, d \in 0..MaxDurability, s \in {"armor", ""} :
                item = [i \in ItemIds |->
                           IF i = 1 THEN [ItemRec(id, d) EXCEPT !.equipped_slot = s]
                           ELSE FreeRec]
    /\ location = [c \in Chars |-> Spawn]
    /\ hidden = [c \in Chars |-> FALSE]
    /\ cooldowns = [c \in Chars |-> <<>>]
    /\ queue = <<>>
    /\ ret = NoRet
    /\ commands = NoCommands
    /\ sinceMove = [c \in Chars |-> MoveTicks]
    /\ characters = <<>>
    /\ managing = {}
    /\ sockets = [s \in Sockets |-> 0]
    /\ timers = [u \in Accounts |-> 0]
    /\ timeouts = {}
    /\ redis = RedisInit

Deltas == {0 - MaxAmount, 1}
Damages == {-1, 1, MaxStat + 1}

\* one character's stats: the update methods, damage and death
NextStats ==
    \/ \E d \in Deltas : UpdateCash(1, d)
    \/ \E d \in Deltas : UpdateBank(1, d)
    \/ \E d \in Deltas : UpdateExp(1, d)
    \/ \E d \in Deltas : UpdateHealth(1, d)
    \/ \E d \in Damages, ign \in BOOLEAN : DealDamage(1, d, ign)
    \/ Die(1)
    \/ DieThen

SpecStats == InitCombat /\ [][NextStats]_vars

\* one character being hit and healed
NextCombat ==
    \/ \E d \in Damages, ign \in BOOLEAN : DealDamage(1, d, ign)
    \/ \E d \in Deltas : UpdateHealth(1, d)

SpecCombat == InitCombat /\ [][NextCombat]_vars

\* death of a loaded character the others aim at, every call run to
\* completion (continuation included) before the next one starts
NextDieSeq ==
    \/ \E c \in Chars, t \in Chars : queue = <<>> /\ SetTarget(c, t)
    \/ \E d \in Deltas : queue = <<>> /\ UpdateCash(1, d)
    \/ \E d \in Deltas : queue = <<>> /\ UpdateHealth(1, d)
    \/ queue = <<>> /\ Die(1)
    \/ SetTargetThen
    \/ DieThen

SpecDieSeq == InitLoaded /\ [][NextDieSeq]_vars

\* the direction arguments of setPlayerPosition
GridMoves == {"x", "y", ""}

\* the users with a setPlayerPosition under way
Walking == {queue[i].self : i \in 1..Len(queue)}

\* setPlayerPosition called by the users in any order, each user's next call
\* after the callback of the one before, and the replies of redis
NextGrid ==
    \/ \E u \in GridUsers \ Walking, g \in GridMoves, d \in Directions :
           SetPlayerPosition(u, g, d)
    \/ GetPlayerPositionReply
    \/ SetPositionReply
    \/ GridGetReply
    \/ GridSetReply

SpecGrid == Init /\ [][NextGrid]_vars

\* ----------------------------------------------------------------- claims
\* C1: after any sequence of setTarget and releaseTarget calls, each run to
\* completion (deferred continuation included) before the next starts, for
\* all characters A and B: A.target = B exactly when A is in B.targetedBy,
\* and A is in the targetedBy of at most one character.
C1_TargetSymmetricSequential ==
    queue = <<>> =>
        /\ \A a \in Chars : \A b \in Chars :
              (target[a] = b) <=> (a \in Range(targetedBy[b]))
        /\ \A a \in Chars :
              Cardinality({b \in Chars : a \in Range(targetedBy[b])}) <= 1

\* a retarget has completed: 1 aimed at somebody, then at 3, whom 2 aims at too
C1_Witness ==
    /\ queue = <<>>
    /\ ret.op = "setTarget" /\ ret.self = 1 /\ ret.arg = 3
    /\ target[1] = 3
    /\ target[2] = 3
    /\ targetedBy[3] = <<2, 1>>
    /\ targetedBy[2] = <<>>

\* C2: for every interleaving of A.setTarget(B) and A.setTarget(C), the second
\* possibly issued before the first one's continuation has run, once both have
\* finished A.target = C, A is in C.targetedBy and in no other targetedBy.
C2_RetargetReleasesPrevious ==
    (queue = <<>> /\ ret.op = "setTarget") =>
        LET a == ret.self
            c == ret.arg
        IN  /\ target[a] = c
            /\ a \in Range(targetedBy[c])
            /\ \A b \in Chars \ {c} : a \notin Range(targetedBy[b])

\* C3: after any sequence of setTarget, releaseTarget, die, flee and move,
\* each run to completion, for all characters A and B: A.target = B exactly
\* when A is in B.targetedBy; after B dies or flees nobody has B as target.
C3_TargetSymmetricAllOperations ==
    queue = <<>> =>
        \A b \in Chars : \A a \in Chars :
            (a \in Range(targetedBy[b])) <=> (target[a] = b)

C5_OneItemPerSlot ==
    \A c \in Chars : \A k1 \in 1..Len(inventory[c]) : \A k2 \in 1..Len(inventory[c]) :
        (/\ item[inventory[c][k1]].equipped_slot # ""
         /\ item[inventory[c][k1]].equipped_slot = item[inventory[c][k2]].equipped_slot)
        => k1 = k2

\* C6: dropItem on an equipped item with isFleeing = false returns null (and
\* so never hands out an item that is equipped).
C6_EquippedItemNotDropped ==
    (ret.op = "dropItem" /\ ~ret.isFleeing) =>
        ~(ret.res.kind = "item" /\ ret.res.equipped_slot # "")

\* what C7 expects of dealDamage(damage, ignoreArmor) on character c, given
\* what is blocked when no armor is used
C7_Expected(c, damage, ignoreArmor, blockedUnarmored) ==
    LET a == getEquippedSync(inventory[c], item, "armor")
        used == ~ignoreArmor /\ a # NoItem
        blocked == IF used
                   THEN Min(damage, Min(Template(item[a].id).damage_reduction,
                                        item[a].durability))
                   ELSE blockedUnarmored
        dealt == Max(0, damage - blocked)
        left == Max(0, stats[c].health - dealt)
    IN  /\ ret'.res.damageBlocked = blocked
        /\ ret'.res.damageDealt = dealt
        /\ ret'.res.healthLeft = left
        /\ stats'[c].health = left

\* C7 as stated: for every amount, damageBlocked = min(amount, r, d) when
\* armor is equipped and not ignored and 0 otherwise, damageDealt =
\* max(0, amount - damageBlocked), healthLeft = max(0, health - damageDealt),
\* and stats.health is set to healthLeft.
C7_DamageFormulas ==
    [][\A c \in Chars, d \in Damages, ign \in BOOLEAN :
          (ret'.op = "dealDamage" /\ DealDamage(c, d, ign))
          => C7_Expected(c, d, ign, 0)]_vars

\* C7, amended: as stated, except that without armor (none equipped, or
\* ignored) damageBlocked = min(amount, 0): 0 for an amount >= 0, the amount
\* itself for a negative one.
C7_DamageFormulasSigned ==
    [][\A c \in Chars, d \in Damages, ign \in BOOLEAN :
          (ret'.op = "dealDamage" /\ DealDamage(c, d, ign))
          => C7_Expected(c, d, ign, Min(d, 0))]_vars

\* armor whose durability is below its rating has blocked part of a hit
C7_Witness ==
    /\ ret.op = "dealDamage"
    /\ ret.armorItem # NoItem /\ ~ret.ignoreArmor
    /\ ret.res.damageBlocked > 0
    /\ ret.res.damageBlocked < Template(item[ret.armorItem].id).damage_reduction
    /\ ret.res.damageBlocked < ret.arg
    /\ ret.res.damageDealt > 0
    /\ ret.res.healthLeft = 0

C9_StatsWithinRange ==
    \A c \in Chars :
        /\ stats[c].money >= 0
        /\ stats[c].bank >= 0
        /\ stats[c].exp >= 0
        /\ 0 <= stats[c].health
        /\ stats[c].health <= stats[c].health_max

\* more cash was taken than there was: the floor held
C9_Witness ==
    /\ ret.op = "updateCash"
    /\ ret.arg < -1
    /\ stats[ret.self].money = 0
    /\ stats[ret.self].exp > 0
    /\ stats[ret.self].health = 0

\* the deferred body of die() runs
C10_DieRuns ==
    /\ queue # <<>>
    /\ Head(queue).k = "die"
    /\ Head(queue).hops = 1
    /\ queue' = Tail(queue)

\* what die() leaves behind and resolves with, given the targetedBy expected
C10_Expected(c, expectedTargetedBy) ==
    /\ ret.op = "die" /\ ret.self = c
    /\ ret'.op = "dieResolved" /\ ret'.self = c
    /\ ret'.res.items = ret.prior.items
    /\ ret'.res.cash = ret.prior.money
    /\ ret'.res.targetedBy = expectedTargetedBy
    /\ inventory'[c] = <<>>
    /\ stats'[c].money = 0
    /\ stats'[c].health = stats'[c].health_max
    /\ target'[c] = NoChar
    /\ targetedBy'[c] = <<>>

\* C10 as stated: die() resolves with the inventory, the money and the
\* targetedBy the character had when die() was called, and leaves an empty
\* inventory, money 0, health = health_max, target null, empty targetedBy.
C10_DieResolvesWithPriorState ==
    [][C10_DieRuns =>
          C10_Expected(Head(queue).self, ret.prior.targetedBy)]_vars

\* C10, amended: as stated, except that the targetedBy die() resolves with
\* is the prior one without the character itself (a character that aimed at
\* itself is released from its own list first).
C10_DieResolvesWithPriorStateButSelf ==
    [][C10_DieRuns =>
          C10_Expected(Head(queue).self,
                       gridRelease(ret.prior.targetedBy, user_id[Head(queue).self]))]_vars

\* a character with two items and cash, aimed at by another, died
C10_Witness ==
    /\ ret.op = "dieResolved" /\ ret.self = 1
    /\ Len(ret.res.items) = 2
    /\ ret.res.cash > 0
    /\ ret.res.targetedBy = <<2>>
    /\ target[2] = 1
    /\ inventory[1] = <<>>

\* the step MoveGet of character c: the callback of get() runs
MoveGetStep(c) ==
    /\ queue # <<>>
    /\ Head(queue).k = "moveGet"
    /\ Head(queue).hops = 1
    /\ Head(queue).self = c
    /\ queue' # queue
    /\ Len(queue') <= Len(queue)

\* C11: a move requested while the character is aimed at (targetedBy is not
\* empty) or hidden is denied outright: location, target and cooldown list
\* are left as they were, nothing further is scheduled, no room is sent
\* anything and the only event is one warning to the requesting socket.
C11_DeniedMoveChangesNothing ==
    [][\A c \in Movers :
          (MoveGetStep(c) /\ (targetedBy[c] # <<>> \/ hidden[c]))
          => /\ location' = location
             /\ target' = target
             /\ targetedBy' = targetedBy
             /\ cooldowns' = cooldowns
             /\ queue' = Tail(queue)
             /\ ret'.events = <<ToSocket(c, "warning")>>]_vars

\* a hidden character nobody aims at asked to move and was denied
C11_Witness ==
    /\ ret.op = "moveGet"
    /\ ret.res = "denied"
    /\ hidden[ret.self]
    /\ targetedBy[ret.self] = <<>>

\* C12: a move request whose destination is no cell of the map is rejected
\* without mutation: the step that finds the destination invalid leaves the
\* character's location, target and cooldown list as they were.
C12_InvalidMoveChangesNothing ==
    [][\A c \in Movers :
          (/\ MoveGetStep(c)
           /\ LET newLocation == Step(location[c], Head(queue).s, Head(queue).dir)
              IN  ~isValidPostion(newLocation.x, newLocation.y))
          => /\ location' = location
             /\ target' = target
             /\ cooldowns' = cooldowns]_vars

\* the step of character c that runs the pending continuation of kind k
JobStep(c, k) ==
    /\ queue # <<>>
    /\ Head(queue).k = k
    /\ Head(queue).hops = 1
    /\ Head(queue).self = c
    /\ queue' # queue
    /\ Len(queue') <= Len(queue)

\* C13: the effects of a successful move occur in this order: the mover's
\* target is released (before anything is sent and before the location
\* changes), then 'left' goes to the room of the old cell, the location is
\* updated, 'joined' goes to the room of the new cell, the mover's own view
\* is resynced and the move cooldown is started; right after that
\* ticksLeft(mover, 'move') > 0.
C13_MoveEffectsInOrder ==
    [][\A c \in Movers :
          /\ JobStep(c, "moveValid")
                => /\ target'[c] = NoChar
                   /\ \A t \in Chars : c \notin Range(targetedBy'[t])
                   /\ location' = location
                   /\ ret'.events = <<>>
          /\ JobStep(c, "moveDone")
                => /\ target[c] = NoChar
                   /\ location'[c] = Head(queue).loc
                   /\ location'[c] # location[c]
                   /\ ret'.events = <<ToRoom(c, location[c], "left"),
                                      ToRoom(c, location'[c], "joined"),
                                      ToSocket(c, "update"),
                                      ToSocket(c, "cooldown started")>>
                   /\ \E k \in 1..Len(cooldowns'[c]) :
                         /\ cooldowns'[c][k].id = Head(queue).cd
                         /\ cooldowns'[c][k].started
                   /\ ticksLeft(cooldowns'[c], "move") > 0]_vars

\* a move just completed: the mover is in another cell, aims at nobody, the
\* two room events went to different rooms and the cooldown runs
C13_Witness ==
    /\ ret.op = "moveDone"
    /\ location[ret.self] # Spawn
    /\ target[ret.self] = NoChar
    /\ ret.events[1].room = Spawn
    /\ ret.events[2].room = location[ret.self]
    /\ ticksLeft(cooldowns[ret.self], "move") > 0

\* C14: move re-validates after its suspension: when another character has
\* taken aim at the mover, or the mover has hidden, by the time the awaited
\* location validation completes (stale), the move does not change the
\* mover's location.
C14_StaleMoveAborts ==
    [][\A c \in Movers :
          (JobStep(c, "moveDone") /\ Head(queue).stale)
          => location'[c] = location[c]]_vars

\* C15: cooldowns impose a minimum spacing: when move changes the location of
\* a character, at least MoveTicks ticks have passed since move last changed
\* the location of that character.
C15_MovesSpacedByCooldown ==
    [][\A c \in Movers :
          JobStep(c, "moveDone") => sinceMove[c] >= MoveTicks]_vars

\* the places in a cooldown list of the cooldowns of an action with ticks left
ActiveCooldowns(cds, action) ==
    {k \in 1..Len(cds) : cds[k].action = action /\ cds[k].ticks > 0}

\* C16: at every moment a character's cooldown list holds at most one cooldown
\* with ticks > 0 for an action key, whatever move requests (valid or not),
\* ticks and reaper runs came before.
C16_OneActiveCooldownPerAction ==
    \A c \in Chars : Cardinality(ActiveCooldowns(cooldowns[c], "move")) <= 1

\* a second move cooldown was added behind an ended one that is still listed
C16_Witness ==
    \E c \in Movers :
        /\ Len(cooldowns[c]) = 2
        /\ cooldowns[c][1].ticks = 0
        /\ cooldowns[c][2].ticks > 0

\* a step in which time passes for character c (a tick of its cooldown
\* timers) or its list is reaped: the cooldowns change, nothing is called
TickStep(c) ==
    /\ cooldowns'[c] # cooldowns[c]
    /\ queue' = queue
    /\ ret' = ret \/ ret'.op = "cleanup"

\* C17: ticksLeft never increases from one tick to the next, is 0 once every
\* listed cooldown of the action has been started and has run for its
\* duration in ticks or longer, and so is 0 when the character has no
\* cooldown for the action.
C17_TicksLeftRunsDown ==
    /\ [](\A c \in Chars :
            (\A k \in 1..Len(cooldowns[c]) :
                cooldowns[c][k].action = "move"
                => /\ cooldowns[c][k].started
                   /\ cooldowns[c][k].age >= cooldowns[c][k].duration)
            => ticksLeft(cooldowns[c], "move") = 0)
    /\ [][\A c \in Chars :
            TickStep(c)
            => ticksLeft(cooldowns'[c], "move") <= ticksLeft(cooldowns[c], "move")]_vars

\* a started cooldown has run for its whole duration and is still listed
C17_Witness ==
    \E c \in Movers :
        /\ Len(cooldowns[c]) = 1
        /\ cooldowns[c][1].started
        /\ cooldowns[c][1].age = MoveTicks
        /\ ticksLeft(cooldowns[c], "move") = 0

\* the register calls a registerManager call amounts to, in order: each
\* object's command, then its aliases
RECURSIVE C18_Calls(_)
C18_Calls(list) ==
    IF list = <<>> THEN <<>>
    ELSE LET obj == Head(list)
         IN  <<[name |-> obj.command, def |-> obj.def, isAlias |-> FALSE]>>
             \o [i \in 1..Len(obj.aliases) |->
                    [name |-> obj.aliases[i], def |-> obj.def, isAlias |-> TRUE]]
             \o C18_Calls(Tail(list))

\* the key of a name: the name with one leading '/'
C18_Key(name) == IF name # <<>> /\ Head(name) = "/" THEN name ELSE <<"/">> \o name

\* after the calls, every key taken before is as it was, and every other key
\* holds the definition of the first call that names it
C18_FirstWins(before, calls, after) ==
    /\ DOMAIN after = DOMAIN before \cup {C18_Key(calls[i].name) : i \in 1..Len(calls)}
    /\ \A key \in DOMAIN after :
          IF key \in DOMAIN before
          THEN after[key] = before[key]
          ELSE \E i \in 1..Len(calls) :
                  /\ C18_Key(calls[i].name) = key
                  /\ \A j \in 1..(i - 1) : C18_Key(calls[j].name) # key
                  /\ after[key].def = calls[i].def
                  /\ after[key].isAlias = calls[i].isAlias

\* C18: command keys are unique and the first registration wins: a register
\* or registerManager call leaves every taken key as it was (whether the name
\* comes with or without the leading '/', as a command or as an alias) and
\* gives every free key the definition of the first call that names it; no
\* other step changes the registry.
C18_FirstRegistrationWins ==
    [][/\ ret'.op = "register"
            => C18_FirstWins(commands,
                   <<[name |-> ret'.name, def |-> ret'.arg.def,
                      isAlias |-> ret'.arg.isAlias]>>, commands')
       /\ ret'.op = "registerManager"
            => C18_FirstWins(commands, C18_Calls(ret'.arg), commands')
       /\ ret'.op \notin {"register", "registerManager"}
            => commands' = commands]_vars

\* an alias of another definition was registered under a name, without the
\* '/', whose key a command holds: the command is still there
C18_Witness ==
    /\ ret.op = "register"
    /\ ret.name = <<"a">>
    /\ ret.arg.isAlias
    /\ <<"/", "a">> \in DOMAIN commands
    /\ commands[<<"/", "a">>].def # ret.arg.def
    /\ ~commands[<<"/", "a">>].isAlias

\* C19: dispatching text whose first token is not a registered command sends
\* exactly one error event to the dispatching socket, invokes neither
\* validation nor a handler, schedules nothing and changes no character,
\* registry or command state.
C19_UnknownCommandOnlyErrors ==
    [][\A uid \in Users, t \in Tokens :
          (/\ ret'.op = "dispatch"
           /\ ret'.uid = uid
           /\ ret'.name = t
           /\ ret' # ret \/ queue' # queue
           /\ toLowerCase(t) \notin DOMAIN commands)
          => /\ ret'.events = <<ToSocket(uid, "error")>>
             /\ ~ret'.validated
             /\ ~ret'.invoked
             /\ queue' = queue
             /\ commands' = commands
             /\ UNCHANGED <<sessionVars, redis, user_id, targetVars, stats, itemVars, placeVars>>]_vars

\* C20: a registered command dispatched by a user who has no character in the
\* live registry is silently dropped: no callback of that dispatch invokes
\* the handler or sends an event.
C20_NoCharacterDropped ==
    [][(/\ queue # <<>>
        /\ Head(queue).k \in {"dispatchThen", "dispatchCatch"}
        /\ Head(queue).hops = 1
        /\ Head(queue).self = NoChar
        /\ Head(queue).command \in DOMAIN commands
        /\ queue' # queue)
       => /\ ~ret'.invoked
          /\ ret'.events = <<>>]_vars

\* the callbacks of onDispatch pending for registered commands
DispatchJobs ==
    {i \in 1..Len(queue) :
        /\ queue[i].k \in {"dispatchThen", "dispatchCatch"}
        /\ queue[i].command \in DOMAIN commands}

\* the parameter lists that pass the rules of a registered command, and what
\* they are coerced to
C21_Valid(cmd, msgParams) ==
    \/ ~cmd.hasParams
    \/ msgParams \in {<<Str(<<"7">>)>>, <<Str(<<Quote, "7", Quote>>)>>}
C21_Coerced(cmd, msgParams) ==
    IF cmd.hasParams THEN <<Num(7)>> ELSE msgParams

\* C21: every dispatch of a registered command has exactly one of two
\* outcomes: when validation fails the handler is not invoked and one error
\* event goes to the dispatching socket only; when it succeeds the handler is
\* invoked exactly once, with the coerced parameters, and nothing is sent.
C21_ValidateThenHandlerOrError ==
    /\ [](\A i \in DispatchJobs :
            /\ (queue[i].k = "dispatchThen")
                    = C21_Valid(commands[queue[i].command], queue[i].msgParams)
            /\ \A k \in DispatchJobs : k = i)
    /\ [][(/\ 1 \in DispatchJobs
           /\ queue' # queue
           /\ Head(queue).hops = 1)
          => LET j == Head(queue)
                 cmd == commands[j.command]
             IN  /\ queue' = Tail(queue)
                 /\ IF C21_Valid(cmd, j.msgParams)
                    THEN /\ ret'.invoked
                         /\ ret'.arg = C21_Coerced(cmd, j.msgParams)
                         /\ ret'.events = <<>>
                    ELSE /\ ~ret'.invoked
                         /\ ret'.events = <<ToSocket(j.uid, "error")>>]_vars

\* a handler was invoked with the number a quoted parameter was coerced to
C21_Witness ==
    /\ ret.op = "handler"
    /\ ret.invoked
    /\ ret.arg = <<Num(7)>>
    /\ ret.uid = 1

\* C22: within validate the first failing rule aborts: after a rule fails
\* (the awaited gamemap and item lookups included) no later rule of any slot
\* is evaluated and no further lookup is issued, and the promise rejects; when
\* no rule fails every evaluated slot holds the value its last rule coerced.
C22_FirstFailureAborts ==
    ret.op = "validate" =>
        LET log == ret.res.log
        IN  /\ \A k \in 1..Len(log) : log[k].failed => k = Len(log)
            /\ (\E k \in 1..Len(log) : log[k].failed) => ret.res.outcome = "rejected"
            /\ (\A k \in 1..Len(log) : ~log[k].failed)
                    => \A k \in 1..Len(log) :
                          log[k].rule \in {"integer", "gamemap", "item"}
                              => ret.res.params[log[k].slot].t # "string"

\* slot index of a call of validate was typed empty and is not required
C23_EmptyOptional(msgParams, cmdParams, index) ==
    LET prepared == prepare(msgParams, Len(cmdParams))
    IN  /\ index <= Len(prepared)
        /\ stripEncapsulation(prepared[index].s) = <<>>
        /\ cmdParams[index].rules # <<>>
        /\ "required" \notin Range(cmdParams[index].rules)

\* C23: an empty non-required slot ends only its own rules: when validate
\* resolves, every later declared slot that has a parameter has been unquoted,
\* and its rules have been evaluated unless it is itself empty and optional
\* (so a failing rule of a later slot would have rejected).
C23_EmptySlotSkipsOnlyItself ==
    (ret.op = "validate" /\ ret.res.outcome = "resolved") =>
        \A e \in 1..Len(ret.cmdParams) : \A i \in (e + 1)..Len(ret.cmdParams) :
            (/\ C23_EmptyOptional(ret.msgParams, ret.cmdParams, e)
             /\ i <= Len(ret.res.params))
            => /\ i \in ret.res.stripped
               /\ (/\ ret.cmdParams[i].rules # <<>>
                   /\ ~C23_EmptyOptional(ret.msgParams, ret.cmdParams, i))
                  => \E k \in 1..Len(ret.res.log) : ret.res.log[k].slot = i

\* the candidates of a call of findAtLocation: the visible players and the
\* NPCs it was not told to ignore, those named exactly findName, and those
\* whose name starts with it
C24_Candidates ==
    (IF ret.ignorePlayers THEN {} ELSE {u \in Range(ret.players) : ~u.hidden})
        \cup (IF ret.ignoreNPCs THEN {} ELSE Range(ret.npcs))
C24_Name(u) == IF u.type = <<>> THEN u.name ELSE npcFullName(u)
C24_Exact == {u \in C24_Candidates : C24_Name(u) = ret.findName}
C24_Prefix == {u \in C24_Candidates : StartsWith(C24_Name(u), ret.findName)}

\* C24: findAtLocation returns a candidate named exactly as the query if
\* there is one, otherwise the single candidate whose name starts with the
\* query; with several such candidates and no exact one it answers
\* 'ambiguous', with none 'not found'.
C24_FindAtLocationResolves ==
    ret.op = "findAtLocation" =>
        IF C24_Exact # {}
        THEN ret.res.kind = "target" /\ ret.res.target \in C24_Exact
        ELSE IF Cardinality(C24_Prefix) = 1
        THEN ret.res.kind = "target" /\ ret.res.target \in C24_Prefix
        ELSE IF C24_Prefix # {}
        THEN ret.res.kind = "ambiguous"
        ELSE ret.res.kind = "notfound"

\* C25: the live registry never holds two characters of one user.
C25_OneCharacterPerUser ==
    \A i, k \in 1..Len(characters) :
        characters[i].user_id = characters[k].user_id => i = k

\* C26: a disconnect or logout only starts the grace timer and leaves the
\* registry alone; a character leaves the registry for good only when a timer
\* fires; after a login no timer of that user is left to fire; and no timer
\* evicts a character whose user has a connection attached.
C26_GraceTimerEviction ==
    [][\A uid \in Accounts :
          /\ (ret'.op \in {"disconnect", "logout"} /\ ret'.uid = uid /\ sockets' # sockets)
                => /\ characters' = characters
                   /\ \E t \in timeouts' \ timeouts : t.user_id = uid
          /\ (uid \in Online(characters) /\ uid \notin Online(characters'))
                => \/ timeouts' # timeouts /\ sockets' = sockets
                   \/ ret'.op = "manage" /\ ret'.uid = uid
          /\ (ret'.op = "manage" /\ ret'.uid = uid /\ sockets' # sockets)
                => \A t \in timeouts' : t.user_id # uid
          /\ (ret'.op = "timer" /\ timeouts' # timeouts
                /\ uid \in Online(characters) /\ uid \notin Online(characters'))
                => \A s \in Sockets : sockets[s] # uid]_vars

\* the inventory entries of character c that hold template id
C27_Entries(inv, heap, id) == {k \in 1..Len(inv) : heap[inv[k]].id = id}

\* what giveItem(item of template id, amount) must leave behind
C27_Post(id, amount) ==
    LET before == C27_Entries(inventory[1], item, id)
        after == C27_Entries(inventory'[1], item', id)
    IN  IF Template(id).stackable
        THEN LET had == IF before = {} THEN 0
                        ELSE item[inventory[1][CHOOSE k \in before : TRUE]].durability
                 n == IF amount = 0 THEN Template(id).durability ELSE amount
             IN  /\ Cardinality(after) = 1
                 /\ \A k \in after : item'[inventory'[1][k]].durability = had + n
        ELSE amount >= 1 =>
             /\ Len(inventory'[1]) = Len(inventory[1]) + amount
             /\ SubSeq(inventory'[1], 1, Len(inventory[1])) = inventory[1]
             /\ \A k \in (Len(inventory[1]) + 1)..Len(inventory'[1]) :
                   /\ item'[inventory'[1][k]].id = id
                   /\ inventory'[1][k] \notin Range(inventory[1])
                   /\ \A j \in (Len(inventory[1]) + 1)..Len(inventory'[1]) :
                         inventory'[1][j] = inventory'[1][k] => j = k
                   /\ \A o \in dropItem(inventory'[1], item', queue', 1, ByIndex(k - 1), 1, FALSE) :
                         /\ o.res.kind = "item"
                         /\ o.inventory = RemoveAt(inventory'[1], k)

\* C27: giveItem of a stackable item leaves exactly one entry of that
\* template, its quantity grown by the amount given; giveItem of a
\* non-stackable item with amount n >= 1 appends exactly n new, distinct
\* entries of the template, each of which dropItem removes on its own.
C27_GiveItemStacksOrAppends ==
    [][\A id \in {"vest", "ammo", "junk"}, n \in Amounts :
          (ret'.op = "giveItem" /\ inventory' # inventory /\ GiveItem(1, id, n))
          => C27_Post(id, n)]_vars

\* two pieces of one non-stackable template were given in one call
C27_Witness ==
    /\ ret.op = "giveItem"
    /\ Len(inventory[1]) = 2
    /\ \A k \in 1..2 : item[inventory[1][k]].id = "vest"
    /\ inventory[1][1] # inventory[1][2]

C30_LocationIsACell ==
    \A c \in Chars :
        /\ location[c].map # ""
        /\ isValidPostion(location[c].x, location[c].y)

\* the character holds an equipped ranged weapon and equipped ammunition
\* with rounds left
C31_Armed(c) ==
    /\ \E k \in 1..Len(inventory[c]) : item[inventory[c][k]].equipped_slot = "ranged"
    /\ \E k \in 1..Len(inventory[c]) :
          /\ item[inventory[c][k]].equipped_slot = "ammo"
          /\ item[inventory[c][k]].durability > 0

C32_ShutdownCompletes ==
    [](ret.op = "shutdown"
          => <>(IF ret.op \in {"shutdown", "saveAll"} THEN ret.callbacks = 1 ELSE FALSE))

\* C33: a run of the reaper on a character's list keeps every cooldown that
\* has ticks left, started or not, in its order, and removes every cooldown
\* that has ended
C33_ReaperRemovesExpired ==
    [][\A c \in Chars :
          (ret'.op = "cleanup" /\ cooldowns'[c] # cooldowns[c])
              => cooldowns'[c] = SelectSeq(cooldowns[c], LAMBDA cd : cd.ticks > 0)]_vars

\* C34: when a declared slot with the rule `required` is given no token, and
\* no rule of an earlier slot has failed, validate rejects, and the rule it
\* rejects on is `required` of that slot (the 'Missing parameter' message)
C34_MissingRequiredRejects ==
    ret.op = "validate" =>
        \A index \in 1..Len(ret.cmdParams) :
            (/\ "required" \in Range(ret.cmdParams[index].rules)
             /\ Len(ret.msgParams) < index
             /\ \A k \in 1..Len(ret.res.log) :
                   ret.res.log[k].slot < index => ~ret.res.log[k].failed)
            => /\ ret.res.outcome = "rejected"
               /\ \E k \in 1..Len(ret.res.log) :
                     /\ ret.res.log[k].slot = index
                     /\ ret.res.log[k].rule = "required"
                     /\ ret.res.log[k].failed

\* the quantity of the stack a selector names (0 = no such entry)
C35_Stack(inv, heap, sel) ==
    LET k == DropIndex(inv, heap, sel) + 1
    IN  IF k \in 1..Len(inv) /\ Template(heap[inv[k]].id).stackable
        THEN inv[k] ELSE NoItem

\* C35: dropItem on a stack, for every integer amount: it returns null and
\* leaves the inventory as it was, or it returns an item carrying a quantity
\* of 1 or more and the stack has lost exactly that quantity; the stack never
\* grows, and every stack in the inventory afterwards has a quantity above 0
C35_DropConservesQuantity ==
    [][\A sel \in DropSelectors, n \in DropAmounts :
          (/\ ret'.op = "dropItem"
           /\ C35_Stack(inventory[1], item, sel) # NoItem
           /\ DropItem(1, sel, n, FALSE))
          => LET i == C35_Stack(inventory[1], item, sel)
                 before == item[i].durability
                 after == IF i \in Range(inventory'[1]) THEN item'[i].durability ELSE 0
             IN  /\ ret'.res.kind \in {"null", "item"}
                 /\ ret'.res.kind = "null" => UNCHANGED itemVars
                 /\ ret'.res.kind = "item" =>
                       /\ ret'.res.durability >= 1
                       /\ before - after = ret'.res.durability
                 /\ after <= before
                 /\ \A j \in Range(inventory'[1]) :
                       Template(item'[j].id).stackable => item'[j].durability > 0]_vars

\* C36: an action of any type but the authenticate action, sent over a
\* connection that has no user, is not emitted as a 'dispatch': no manager
\* sees it, no command is validated, no event is sent and nothing changes
C36_UnauthenticatedIgnored ==
    [][\A s \in Sockets, action \in Actions :
          (/\ sockets[s] = 0
           /\ action.type # "ACCOUNT_AUTHENTICATE"
           /\ OnClientDispatch(s, action))
          => /\ ret'.op = "onClientDispatch"
             /\ ~ret'.emitted
             /\ UNCHANGED <<sessionVars, redis, user_id, commands, sinceMove, targetVars,
                            stats, itemVars, placeVars, queue>>]_vars

\* a connection without a user has sent a game command while a command is
\* registered and another connection is logged in
C36_Witness ==
    /\ ret.op = "onClientDispatch"
    /\ ret.type = "GAME_COMMAND"
    /\ ~ret.emitted
    /\ sockets[ret.socket] = 0
    /\ \E s \in Sockets : sockets[s] # 0
    /\ commands # NoCommands

\* C37: the promise validate returns is settled, resolved or rejected, for
\* every list of tokens and every list of declared slots
C37_ValidateSettles ==
    ret.op = "validate" => ret.res.outcome \in {"resolved", "rejected"}

\* C38: the target of every character of the registry, and every character
\* in its targetedBy, is a character of the registry
C38_NoDanglingGridlock ==
    \A c \in Managed :
        /\ target[c] # NoChar => target[c] \in Managed
        /\ Range(targetedBy[c]) \subseteq Managed

\* C39: when kill hands out the loot of the dead, every character that aimed
\* at it gains the same share of the cash, the shares together are no more
\* than the cash dropped, nobody else's cash or exp changes, and nobody's
\* cash or exp is negative or not a finite number, whatever the number of
\* characters that aimed at the dead, none included
C39_KillConservesCash ==
    [][(ret'.op = "killThen" /\ ret' # ret) =>
        LET attackers == Range(ret'.attackers)
            gain(c) == stats'[c].money - stats[c].money
        IN  /\ \A a \in attackers : \A b \in attackers : gain(a) = gain(b)
            /\ \A a \in attackers :
                  /\ gain(a) >= 0
                  /\ gain(a) * Cardinality(attackers) <= ret'.cash
            /\ \A c \in Chars \ attackers : stats'[c] = stats[c]
            /\ \A c \in Chars :
                  /\ stats'[c].money >= 0
                  /\ stats'[c].exp >= 0
                  /\ stats'[c].money \notin {NaN, Infinity}
                  /\ stats'[c].exp \notin {NaN, Infinity}]_vars

\* the cash of a dead character was shared by the two that aimed at it
C39_Witness ==
    /\ ret.op = "killThen"
    /\ Len(ret.attackers) = 2
    /\ ret.cash >= 2
    /\ ret.cashReward >= 1
    /\ \A a \in Range(ret.attackers) : stats[a].money >= ret.cashReward
    /\ stats[ret.self].money = 0

\* a character nobody aimed at was killed with cash on it
C39_WitnessNobody ==
    /\ ret.op = "killThen"
    /\ ret.attackers = <<>>
    /\ ret.cash > 0

\* C40: once every setPlayerPosition has run to its end, every user is in the
\* player list of exactly one cell, the cell stored as the user's position
C40_ListsMatchPositions ==
    queue = <<>> =>
        \A u \in GridUsers :
            {c \in Cells : u \in redis.grid[c]}
                = {getPlayerPosition(redis.position[u])}

====
